---- MODULE Spec2Model ----
(***************************************************************************)
(* Ledger & settlement engine of the mess-fund manager (src/main.py,       *)
(* class MessFundManager), with the wall clock it reads and the JSON file  *)
(* it loads and rewrites.                                                  *)
(*                                                                         *)
(* Modelling decisions:                                                    *)
(*  - the clock is the month index `now`; every datetime.now() read by    *)
(*    one engine call sees the same month, the month changes between calls *)
(*    (action Tick);                                                       *)
(*  - money is exact rational arithmetic (pairs <<num, den>> in lowest     *)
(*    terms) where Python uses floats;                                     *)
(*  - a Python dict is a function; iteration over the meal dict follows    *)
(*    UserOrder, iteration over member_spent follows first appearance in   *)
(*    the expense list, as in the code;                                    *)
(*  - a value returned by an engine method is a record [kind, settlement]: *)
(*    kind is "None", "True", "False", "Settlement", "Summary" or "Raise"; *)
(*  - op is the last engine call (meal_data holds the counts passed to it, *)
(*    empty for a call that takes none), ret what it returned, steps the   *)
(*    number of engine calls made so far (at most MaxOps).                 *)
(***************************************************************************)
EXTENDS Integers, Sequences, FiniteSets, TLC

VARIABLES data, disk, now, op, ret, steps, context, loop

vars == <<data, disk, now, op, ret, steps, context, loop>>

----------------------------------------------------------------------------
(* Bounds of the model *)

MaxMonth == 2

MaxExpenses == 2

MaxArchived == 2

MaxOps == 5

Groups == {"g1"}

UserOrder == <<"u1", "u2">>

Users == {UserOrder[i] : i \in 1..Len(UserOrder)}

Descriptions == {"rice"}

Submitters == {"Alice"}

----------------------------------------------------------------------------
(* Exact rational arithmetic *)

Abs(x) == IF x < 0 THEN -x ELSE x

RECURSIVE GCD(_, _)
GCD(a, b) == IF b = 0 THEN a ELSE GCD(b, a % b)

Norm(n, d) ==
    LET s == IF d < 0 THEN -1 ELSE 1
        k == GCD(Abs(n), Abs(d))
    IN  <<(s * n) \div k, (s * d) \div k>>

Rat(n) == <<n, 1>>

Zero == Rat(0)

RatAdd(a, b) == Norm(a[1] * b[2] + b[1] * a[2], a[2] * b[2])

RatSub(a, b) == Norm(a[1] * b[2] - b[1] * a[2], a[2] * b[2])

RatMul(a, b) == Norm(a[1] * b[1], a[2] * b[2])

RatIsZero(a) == a[1] = 0

(* Mutant: the quotient is cut to the whole number below it *)
PyTrueDiv_Floor(a, b) ==
    IF RatIsZero(b)
    THEN [raised |-> TRUE, val |-> Zero]
    ELSE [raised |-> FALSE, val |-> Rat((a[1] * b[2]) \div (a[2] * b[1]))]

(* Python's a / b: raises ZeroDivisionError when b is zero *)
PyTrueDiv(a, b) ==
    IF RatIsZero(b)
    THEN [raised |-> TRUE, val |-> Zero]
    ELSE [raised |-> FALSE, val |-> Norm(a[1] * b[2], a[2] * b[1])]

----------------------------------------------------------------------------
(* Python dicts and return values *)

EmptyDict == [x \in {} |-> x]

(* F of the value v, with v computed once: the value a statement assigns to a
   local variable that the statements after it read *)
Once(v, F(_)) == CHOOSE out \in {F(x) : x \in {v}} : TRUE

DictSet(d, k, v) == [x \in (DOMAIN d) \cup {k} |-> IF x = k THEN v ELSE d[x]]

RetNone == [kind |-> "None", settlement |-> <<>>]

RetBool(b) == [kind |-> IF b THEN "True" ELSE "False", settlement |-> <<>>]

RetSettlement(s) == [kind |-> "Settlement", settlement |-> <<s>>]

RetRaise == [kind |-> "Raise", settlement |-> <<>>]

----------------------------------------------------------------------------
(* Persistence store *)

NoFile == [file |-> "absent", content |-> EmptyDict]

File(d) == [file |-> "present", content |-> d]

load_data(f) == IF f.file = "absent" THEN EmptyDict ELSE f.content

(* Mutant: the file is not written *)
save_data_Skip(st) == st

save_data(st) == [st EXCEPT !.disk = File(st.data)]

----------------------------------------------------------------------------
(* Group records *)

UpgradedFields ==
    {"meal_counts", "meal_data_submitted", "carry_forward", "current_month", "settlements"}

NewGroup(t) ==
    [members |-> EmptyDict,
     expenses |-> <<>>,
     meal_counts |-> EmptyDict,
     current_month |-> t,
     settlements |-> <<>>,
     carry_forward |-> Zero,
     meal_data_submitted |-> FALSE,
     missing |-> {}]

(* A record written by an older version: the five newer fields are absent *)
LegacyGroup == [NewGroup(0) EXCEPT !.missing = UpgradedFields]

(* Mutant: the upgrade forgets the archive of settlements *)
UpgradeGroup_NoSettlements(grp, t) ==
    [grp EXCEPT
        !.meal_counts = IF "meal_counts" \in grp.missing THEN EmptyDict ELSE @,
        !.meal_data_submitted = IF "meal_data_submitted" \in grp.missing THEN FALSE ELSE @,
        !.carry_forward = IF "carry_forward" \in grp.missing THEN Zero ELSE @,
        !.current_month = IF "current_month" \in grp.missing THEN t ELSE @,
        !.missing = @ \cap {"settlements"}]

UpgradeGroup(grp, t) ==
    [grp EXCEPT
        !.meal_counts = IF "meal_counts" \in grp.missing THEN EmptyDict ELSE @,
        !.meal_data_submitted = IF "meal_data_submitted" \in grp.missing THEN FALSE ELSE @,
        !.carry_forward = IF "carry_forward" \in grp.missing THEN Zero ELSE @,
        !.current_month = IF "current_month" \in grp.missing THEN t ELSE @,
        !.settlements = IF "settlements" \in grp.missing THEN <<>> ELSE @,
        !.missing = @ \ UpgradedFields]

(* Mutant: the record of a new group replaces the whole of self.data *)
init_group_Alone(st, g, t) ==
    IF g \notin DOMAIN st.data
    THEN save_data([st EXCEPT !.data = [x \in {g} |-> NewGroup(t)]])
    ELSE IF st.data[g].missing \cap UpgradedFields # {}
         THEN save_data([st EXCEPT !.data[g] = UpgradeGroup(st.data[g], t)])
         ELSE st

init_group(st, g, t) ==
    IF g \notin DOMAIN st.data
    THEN save_data([st EXCEPT !.data = DictSet(st.data, g, NewGroup(t))])
    ELSE IF st.data[g].missing \cap UpgradedFields # {}
         THEN save_data([st EXCEPT !.data[g] = UpgradeGroup(st.data[g], t)])
         ELSE st

----------------------------------------------------------------------------
(* Membership *)

(* Mutant: the membership test is lost, every registration writes the entry *)
AlreadyMember_Never(members, user_id) == FALSE

AlreadyMember(members, user_id) == user_id \in DOMAIN members

add_member(st, g, name, user_id, username, t) ==
    LET s1 == init_group(st, g, t)
    IN  IF ~AlreadyMember(s1.data[g].members, user_id)
        THEN [st |-> save_data([s1 EXCEPT !.data[g].members =
                        DictSet(@, user_id,
                                [name |-> name, username |-> username, joined_date |-> t])]),
              ret |-> RetBool(TRUE)]
        ELSE [st |-> s1, ret |-> RetBool(FALSE)]

----------------------------------------------------------------------------
(* Expenses *)

ExpenseMonth(grp, t) == t

add_expense(st, g, amount, description, added_by, added_by_id, t) ==
    LET s1 == init_group(st, g, t)
        expense == [amount |-> amount,
                    description |-> description,
                    added_by |-> added_by,
                    added_by_id |-> added_by_id,
                    date |-> t,
                    month |-> ExpenseMonth(s1.data[g], t)]
    IN  [st |-> save_data([s1 EXCEPT !.data[g].expenses = Append(@, expense)]),
         ret |-> RetNone]

get_current_month_expenses(st, g, t) ==
    LET s1 == init_group(st, g, t)
        IsCurrent(e) == e.month = t
    IN  [st |-> s1, ret |-> SelectSeq(s1.data[g].expenses, IsCurrent)]

----------------------------------------------------------------------------
(* Meal counts *)

(* Mutant: the new counts are merged into the counts already submitted *)
SubmittedData_Merge(meal_counts, meal_data, t) ==
    IF t \in DOMAIN meal_counts
    THEN [u \in (DOMAIN meal_counts[t].data) \cup (DOMAIN meal_data) |->
            IF u \in DOMAIN meal_data THEN meal_data[u] ELSE meal_counts[t].data[u]]
    ELSE meal_data

SubmittedData(meal_counts, meal_data, t) == meal_data

set_meal_counts(st, g, meal_data, submitted_by, t) ==
    LET s1 == init_group(st, g, t)
        submission == [data |-> SubmittedData(s1.data[g].meal_counts, meal_data, t),
                       submitted_by |-> submitted_by, submitted_date |-> t]
    IN  [st |-> save_data([s1 EXCEPT
                    !.data[g].meal_counts = DictSet(@, t, submission),
                    !.data[g].meal_data_submitted = TRUE]),
         ret |-> RetNone]

(* Mutant: the test for a submission of the month is lost *)
NoSubmissionYet_Never(meal_counts, t) == FALSE

NoSubmissionYet(meal_counts, t) == t \notin DOMAIN meal_counts

update_single_meal_count(st, g, user_id, new_count, t) ==
    LET s1 == init_group(st, g, t)
    IN  IF NoSubmissionYet(s1.data[g].meal_counts, t)
        THEN [st |-> s1, ret |-> RetBool(FALSE)]
        ELSE [st |-> save_data([s1 EXCEPT !.data[g].meal_counts[t].data =
                        DictSet(@, user_id, new_count)]),
              ret |-> RetBool(TRUE)]

get_current_month_meals(st, g, t) ==
    LET s1 == init_group(st, g, t)
        meal_counts == s1.data[g].meal_counts
    IN  [st |-> s1,
         ret |-> IF t \in DOMAIN meal_counts THEN meal_counts[t].data ELSE EmptyDict]

is_meal_data_submitted(st, g, t) ==
    LET s1 == init_group(st, g, t)
    IN  [st |-> s1, ret |-> s1.data[g].meal_data_submitted]

----------------------------------------------------------------------------
(* Settlement *)

RECURSIVE SumAmounts(_)
SumAmounts(es) ==
    IF es = <<>> THEN Zero ELSE RatAdd(Rat(Head(es).amount), SumAmounts(Tail(es)))

RECURSIVE SumValues(_)
SumValues(d) ==
    IF DOMAIN d = {} THEN 0
    ELSE LET k == CHOOSE x \in DOMAIN d : TRUE
         IN  d[k] + SumValues([x \in (DOMAIN d) \ {k} |-> d[x]])

(* member_spent as the list of its items in insertion order *)
RECURSIVE MemberSpent(_, _)
MemberSpent(acc, es) ==
    IF es = <<>> THEN acc
    ELSE LET e == Head(es)
             seen == \E i \in 1..Len(acc) : acc[i].user_id = e.added_by_id
             acc1 == IF seen THEN acc
                     ELSE Append(acc, [user_id |-> e.added_by_id,
                                       name |-> e.added_by, spent |-> Zero])
             acc2 == [i \in 1..Len(acc1) |->
                        IF acc1[i].user_id = e.added_by_id
                        THEN [acc1[i] EXCEPT !.spent = RatAdd(@, Rat(e.amount))]
                        ELSE acc1[i]]
         IN  MemberSpent(acc2, Tail(es))

SpentKeys(ms) == {ms[i].user_id : i \in 1..Len(ms)}

SpentEntry(ms, user_id) == ms[CHOOSE i \in 1..Len(ms) : ms[i].user_id = user_id]

(* Mutant: "and" for "or", data is insufficient only when both are empty *)
InsufficientData_Both(expenses, meal_data) == Len(expenses) = 0 /\ DOMAIN meal_data = {}

InsufficientData(expenses, meal_data) == Len(expenses) = 0 \/ DOMAIN meal_data = {}

(* Mutant: the zero test before the division is lost *)
NoMeals_Never(total_meals) == FALSE

NoMeals(total_meals) == total_meals = 0

(* Mutant: the meal count is dropped from a member's share *)
Owes_NoCount(meal_count, cost_per_meal) == cost_per_meal

Owes(meal_count, cost_per_meal) == RatMul(Rat(meal_count), cost_per_meal)

(* Mutant: what the user spent is left out of the line *)
MealLine_NothingSpent(grp, ms, meal_data, cost_per_meal, user_id) ==
    LET owes == Owes(meal_data[user_id], cost_per_meal)
    IN  [user_id |-> user_id, name |-> "Member " \o user_id, spent |-> Zero,
         meals |-> meal_data[user_id], owes |-> owes, balance |-> RatSub(Zero, owes)]

MealLine(grp, ms, meal_data, cost_per_meal, user_id) ==
    LET spent == IF user_id \in SpentKeys(ms) THEN SpentEntry(ms, user_id).spent ELSE Zero
        owes == Owes(meal_data[user_id], cost_per_meal)
        name == IF user_id \in DOMAIN grp.members THEN grp.members[user_id].name
                ELSE IF user_id \in SpentKeys(ms) THEN SpentEntry(ms, user_id).name
                ELSE "Member " \o user_id
    IN  [user_id |-> user_id, name |-> name, spent |-> spent,
         meals |-> meal_data[user_id], owes |-> owes, balance |-> RatSub(spent, owes)]

(* Mutant: every spender gets a line of its own *)
SpenderWithoutMeals_Always(user_id, meal_data) == TRUE

(* The spenders of the second loop: those the meal data does not name *)
SpenderWithoutMeals(user_id, meal_data) == user_id \notin DOMAIN meal_data

(* Mutant: a spender without meals is charged all it spent *)
SpenderLine_Settled(entry) ==
    [user_id |-> entry.user_id, name |-> entry.name, spent |-> entry.spent,
     meals |-> 0, owes |-> entry.spent, balance |-> Zero]

SpenderLine(entry) ==
    [user_id |-> entry.user_id, name |-> entry.name, spent |-> entry.spent,
     meals |-> 0, owes |-> Zero, balance |-> entry.spent]

(* Mutant: spenders who are absent from the meal data get no line *)
SettlementLines_MealsOnly(grp, ms, meal_data, cost_per_meal) ==
    LET InMeals(u) == u \in DOMAIN meal_data
        mealKeys == SelectSeq(UserOrder, InMeals)
    IN  [i \in 1..Len(mealKeys) |-> MealLine(grp, ms, meal_data, cost_per_meal, mealKeys[i])]

SettlementLines(grp, ms, meal_data, cost_per_meal) ==
    LET InMeals(u) == u \in DOMAIN meal_data
        mealKeys == SelectSeq(UserOrder, InMeals)
        NotInMeals(entry) == SpenderWithoutMeals(entry.user_id, meal_data)
        spenders == SelectSeq(ms, NotInMeals)
    IN  [i \in 1..Len(mealKeys) |-> MealLine(grp, ms, meal_data, cost_per_meal, mealKeys[i])]
        \o [i \in 1..Len(spenders) |-> SpenderLine(spenders[i])]

(* Mutant: the remainder is taken to be nothing *)
Remaining_Zero(total_expenses, cost_per_meal, total_meals) == Zero

Remaining(total_expenses, cost_per_meal, total_meals) ==
    RatSub(total_expenses, RatMul(cost_per_meal, Rat(total_meals)))

calculate_settlement(st, g, t) ==
    LET s1 == init_group(st, g, t)
        grp == s1.data[g]
        expenses == get_current_month_expenses(s1, g, t).ret
        meal_data == get_current_month_meals(s1, g, t).ret
        carry_forward == grp.carry_forward
        total_expenses == SumAmounts(expenses)
        total_with_carry == RatAdd(total_expenses, carry_forward)
        total_meals == SumValues(meal_data)
        div == PyTrueDiv(total_with_carry, Rat(total_meals))
        cost_per_meal == div.val
        ms == MemberSpent(<<>>, expenses)
    IN  IF InsufficientData(expenses, meal_data) THEN [st |-> s1, ret |-> RetNone]
        ELSE IF NoMeals(total_meals) THEN [st |-> s1, ret |-> RetNone]
        ELSE IF div.raised THEN [st |-> s1, ret |-> RetRaise]
        ELSE [st |-> s1,
              ret |-> RetSettlement(
                 [month |-> t,
                  carry_forward |-> carry_forward,
                  total_expenses |-> total_expenses,
                  total_with_carry |-> total_with_carry,
                  total_meals |-> total_meals,
                  cost_per_meal |-> cost_per_meal,
                  settlements |-> SettlementLines(grp, ms, meal_data, cost_per_meal),
                  remaining |-> Remaining(total_expenses, cost_per_meal, total_meals)])]

----------------------------------------------------------------------------
(* Member-wise summary *)

RetSummary(s) == [kind |-> "Summary", settlement |-> <<s>>]

(* Mutant: no cost per meal counts as positive *)
RatIsPositive_Never(a) == FALSE

RatIsPositive(a) == a[1] > 0

(* Mutant: the test on the total of the meals before the division is lost *)
SummaryHasMeals_Always(total_meals) == TRUE

SummaryHasMeals(total_meals) == total_meals > 0

(* cost_per_meal of the summary: 0 unless expenses, meal data and meals exist *)
SummaryCostPerMeal(grp, expenses, meal_data) ==
    IF Len(expenses) # 0 /\ DOMAIN meal_data # {}
    THEN LET total_with_carry == RatAdd(SumAmounts(expenses), grp.carry_forward)
             total_meals == SumValues(meal_data)
         IN  IF SummaryHasMeals(total_meals)
             THEN PyTrueDiv(total_with_carry, Rat(total_meals))
             ELSE [raised |-> FALSE, val |-> Zero]
    ELSE [raised |-> FALSE, val |-> Zero]

SummaryEntry(grp, expenses, meal_data, cost_per_meal, uid) ==
    LET ByUid(e) == e.added_by_id = uid
        member_expenses == SelectSeq(expenses, ByUid)
        total_spent == SumAmounts(member_expenses)
        meals == IF uid \in DOMAIN meal_data THEN meal_data[uid] ELSE 0
        owes == IF RatIsPositive(cost_per_meal) THEN RatMul(Rat(meals), cost_per_meal) ELSE Zero
    IN  [name |-> IF uid \in DOMAIN grp.members THEN grp.members[uid].name ELSE "User " \o uid,
         username |-> IF uid \in DOMAIN grp.members THEN grp.members[uid].username ELSE "",
         total_spent |-> total_spent,
         expense_count |-> Len(member_expenses),
         expense_details |-> member_expenses,
         meals |-> meals,
         owes |-> owes,
         balance |-> RatSub(total_spent, owes)]

get_member_wise_summary(st, g, t) ==
    LET s1 == init_group(st, g, t)
        grp == s1.data[g]
        expenses == get_current_month_expenses(s1, g, t).ret
        meal_data == get_current_month_meals(s1, g, t).ret
        cpm == SummaryCostPerMeal(grp, expenses, meal_data)
        all_member_ids == {expenses[i].added_by_id : i \in 1..Len(expenses)}
                            \cup (DOMAIN meal_data) \cup (DOMAIN grp.members)
    IN  IF cpm.raised THEN [st |-> s1, ret |-> RetRaise]
        ELSE [st |-> s1,
              ret |-> RetSummary([uid \in all_member_ids |->
                            SummaryEntry(grp, expenses, meal_data, cpm.val, uid)])]

----------------------------------------------------------------------------
(* Period rotation *)

ArchiveEntry(settlement, t) == [settlement |-> settlement, archived_date |-> t]

(* Mutant: the new entry replaces the archive *)
Archive_Replace(settlements, entry) == <<entry>>

(* Mutant: the settlement is not appended to the archive *)
Archive_Skip(settlements, entry) == settlements

Archive(settlements, entry) == Append(settlements, entry)

(* Mutant: the period's total is carried forward, not its remainder *)
NewCarryForward_Total(settlement) == settlement.total_with_carry

NewCarryForward(settlement) == settlement.remaining

(* Mutant: the expenses of the month stay in the list *)
PurgeMonth_Keep(expenses, t) == expenses

PurgeMonth(expenses, t) ==
    LET Keep(e) == e.month # t
    IN  SelectSeq(expenses, Keep)

NextCurrentMonth(grp, t) == t

reset_month(st, g, t) ==
    LET s1 == init_group(st, g, t)
        calc == calculate_settlement(s1, g, t)
        grp == s1.data[g]
        archived == IF calc.ret.kind = "Settlement"
                    THEN [grp EXCEPT
                            !.settlements = Archive(@, ArchiveEntry(calc.ret.settlement[1], t)),
                            !.carry_forward = NewCarryForward(calc.ret.settlement[1])]
                    ELSE grp
        rotated == [archived EXCEPT
                        !.expenses = PurgeMonth(@, t),
                        !.meal_data_submitted = FALSE,
                        !.current_month = NextCurrentMonth(archived, t)]
    IN  IF calc.ret.kind = "Raise" THEN [st |-> s1, ret |-> RetRaise]
        ELSE [st |-> save_data([s1 EXCEPT !.data[g] = rotated]), ret |-> calc.ret]

----------------------------------------------------------------------------
(* Periodic triggers. A run is given, for each group, the point at which its
   processing raises: "none", "notify" (the first message to the group cannot
   be sent), "reset" (reset_month's save fails) or "confirm" (the message after
   the rotation cannot be sent). What a run puts out is the list of messages
   sent and the list of groups whose error was logged. *)

GroupOrder == <<"g1", "g2">>

FailurePoints == {"none", "notify", "reset", "confirm"}

RetJob(out) == [kind |-> "Job", settlement |-> <<out>>]

get_all_active_groups(st) ==
    LET Known(g) == g \in DOMAIN st.data
    IN  SelectSeq(GroupOrder, Known)

Message(g, text) == [chat_id |-> g, text |-> text]

(* Mutant: a group is sent a report and rotated whatever calculate_settlement
   returned *)
HasSettlement_Always(r) == TRUE

(* if settlement: *)
HasSettlement(r) == r.kind = "Settlement"

(* Mutant: reset_month is called before the settlement is sent, so a group
   whose report could not be sent is rotated all the same *)
MonthEndGroup_ResetFirst(acc, g, point, t) ==
    Once(is_meal_data_submitted(acc.st, g, t), LAMBDA sub :
    Once(calculate_settlement(sub.st, g, t), LAMBDA calc :
    Once(reset_month(calc.st, g, t), LAMBDA reset :
    LET failed(st) == [st |-> st, sent |-> acc.sent, logged |-> Append(acc.logged, g)]
    IN  IF ~sub.ret
        THEN IF point = "notify" THEN failed(sub.st)
             ELSE [acc EXCEPT !.st = sub.st,
                              !.sent = Append(@, Message(g, "no_meal_data"))]
        ELSE IF calc.ret.kind = "Raise" THEN failed(calc.st)
        ELSE IF calc.ret.kind # "Settlement" THEN [acc EXCEPT !.st = calc.st]
        ELSE IF point = "reset" THEN failed([data |-> reset.st.data, disk |-> calc.st.disk])
        ELSE IF point = "notify" THEN failed(reset.st)
        ELSE IF point = "confirm"
             THEN [st |-> reset.st,
                   sent |-> Append(acc.sent, Message(g, "settlement")),
                   logged |-> Append(acc.logged, g)]
        ELSE [st |-> reset.st,
              sent |-> acc.sent \o <<Message(g, "settlement"), Message(g, "reset_done")>>,
              logged |-> acc.logged])))

(* check_month_end on its last-day branch, for one group: acc is the state,
   the messages sent and the errors logged so far *)
MonthEndGroup(acc, g, point, t) ==
    Once(is_meal_data_submitted(acc.st, g, t), LAMBDA sub :
    Once(calculate_settlement(sub.st, g, t), LAMBDA calc :
    Once(reset_month(calc.st, g, t), LAMBDA reset :
    LET failed(st) == [st |-> st, sent |-> acc.sent, logged |-> Append(acc.logged, g)]
    IN  IF ~sub.ret
        THEN IF point = "notify" THEN failed(sub.st)
             ELSE [acc EXCEPT !.st = sub.st,
                              !.sent = Append(@, Message(g, "no_meal_data"))]
        ELSE IF calc.ret.kind = "Raise" THEN failed(calc.st)
        ELSE IF ~HasSettlement(calc.ret) THEN [acc EXCEPT !.st = calc.st]
        ELSE IF point = "notify" THEN failed(calc.st)
        ELSE IF point = "reset"
             THEN [st |-> [data |-> reset.st.data, disk |-> calc.st.disk],
                   sent |-> Append(acc.sent, Message(g, "settlement")),
                   logged |-> Append(acc.logged, g)]
        ELSE IF point = "confirm"
             THEN [st |-> reset.st,
                   sent |-> Append(acc.sent, Message(g, "settlement")),
                   logged |-> Append(acc.logged, g)]
        ELSE [st |-> reset.st,
              sent |-> acc.sent \o <<Message(g, "settlement"), Message(g, "reset_done")>>,
              logged |-> acc.logged])))

(* check_meal_reminder on its three-days-left branch, for one group *)
ReminderGroup(acc, g, point, t) ==
    Once(is_meal_data_submitted(acc.st, g, t), LAMBDA sub :
        IF sub.ret THEN [acc EXCEPT !.st = sub.st]
        ELSE IF point = "notify"
             THEN [st |-> sub.st, sent |-> acc.sent, logged |-> Append(acc.logged, g)]
        ELSE [acc EXCEPT !.st = sub.st, !.sent = Append(@, Message(g, "reminder"))])

(* Mutant: the error of one group is not caught in the loop and ends the run *)
RECURSIVE MonthEndLoop_Abort(_, _, _, _)
MonthEndLoop_Abort(acc, groups, points, t) ==
    IF groups = <<>> THEN acc
    ELSE LET next == MonthEndGroup(acc, Head(groups), points[Head(groups)], t)
         IN  IF Len(next.logged) > Len(acc.logged) THEN next
             ELSE MonthEndLoop_Abort(next, Tail(groups), points, t)

RECURSIVE MonthEndLoop(_, _, _, _)
MonthEndLoop(acc, groups, points, t) ==
    IF groups = <<>> THEN acc
    ELSE Once(MonthEndGroup(acc, Head(groups), points[Head(groups)], t),
              LAMBDA next : MonthEndLoop(next, Tail(groups), points, t))

RECURSIVE ReminderLoop(_, _, _, _)
ReminderLoop(acc, groups, points, t) ==
    IF groups = <<>> THEN acc
    ELSE Once(ReminderGroup(acc, Head(groups), points[Head(groups)], t),
              LAMBDA next : ReminderLoop(next, Tail(groups), points, t))

check_month_end(st, points, t) ==
    LET out == MonthEndLoop([st |-> st, sent |-> <<>>, logged |-> <<>>],
                            get_all_active_groups(st), points, t)
    IN  [st |-> out.st, ret |-> RetJob([sent |-> out.sent, logged |-> out.logged])]

check_meal_reminder(st, points, t) ==
    LET out == ReminderLoop([st |-> st, sent |-> <<>>, logged |-> <<>>],
                            get_all_active_groups(st), points, t)
    IN  [st |-> out.st, ret |-> RetJob([sent |-> out.sent, logged |-> out.logged])]

----------------------------------------------------------------------------
(* State machine *)

Store == [data |-> data, disk |-> disk]

(* The conversation handlers in the order main() registers them *)
ConversationOrder == <<"expense", "admin_expense", "admin_edit_meal", "meal">>

Conversations == {ConversationOrder[i] : i \in 1..Len(ConversationOrder)}

(* The front end of one user in one group chat before any update: no
   conversation begun, context.user_data empty; alias is the months whose
   stored submission is the very dict object held in
   user_data['meal_data_collection'], empty when that dict is held by
   user_data alone; buttons is the quick-expense buttons the bot has sent *)
NoContext ==
    [conv |-> [c \in Conversations |-> "END"], user_data |-> EmptyDict, alias |-> {},
     buttons |-> {}]

(* The coroutines on the event loop: the handler of the update being
   processed and the month-end job *)
Coroutines == {"handler", "job"}

(* The event loop at rest: no coroutine begun, none running. pc is the
   statement a coroutine executes next, 0 when it has not begun; inside tells
   that it is in an engine method, past the change of memory and before the
   closing save_data; pending is what that method will return. *)
NoLoop ==
    [running |-> "-",
     pc |-> [c \in Coroutines |-> 0],
     flow |-> [c \in Coroutines |-> "-"],
     inside |-> [c \in Coroutines |-> FALSE],
     pending |-> [c \in Coroutines |-> RetNone]]

OpRec(name, g, user_id, arg) ==
    [name |-> name, g |-> g, user_id |-> user_id, arg |-> arg, meal_data |-> EmptyDict]

(* One engine call: its effect on memory and file, its return value *)
Apply(r, o) ==
    /\ steps < MaxOps
    /\ steps' = steps + 1
    /\ data' = r.st.data
    /\ disk' = r.st.disk
    /\ ret' = r.ret
    /\ op' = o
    /\ UNCHANGED <<now, context, loop>>

Tick ==
    /\ now < MaxMonth
    /\ now' = now + 1
    /\ UNCHANGED <<data, disk, op, ret, steps, context, loop>>

Start(g) ==
    Apply([st |-> init_group(Store, g, now), ret |-> RetNone], OpRec("init_group", g, "-", "-"))

AddMember(g, users, profiles) ==
    \E u \in users, p \in profiles :
        Apply(add_member(Store, g, p.name, u, p.username, now),
              OpRec("add_member", g, u, p.name))

ExpenseCount(g) == IF g \in DOMAIN data THEN Len(data[g].expenses) ELSE 0

AddExpense(g, amounts, authors) ==
    /\ ExpenseCount(g) < MaxExpenses
    /\ \E a \in amounts, d \in Descriptions, by \in authors :
        Apply(add_expense(Store, g, a, d, by.name, by.id, now),
              OpRec("add_expense", g, by.id, by.name))

SetMealCounts(g, mealDatas) ==
    \E m \in mealDatas, s \in Submitters :
        Apply(set_meal_counts(Store, g, m, s, now),
              [OpRec("set_meal_counts", g, "-", s) EXCEPT !.meal_data = m])

UpdateSingleMealCount(g, users, counts) ==
    \E u \in users, c \in counts :
        Apply(update_single_meal_count(Store, g, u, c, now),
              [OpRec("update_single_meal_count", g, u, "-") EXCEPT
                    !.meal_data = DictSet(EmptyDict, u, c)])

CalculateSettlement(g) ==
    Apply(calculate_settlement(Store, g, now), OpRec("calculate_settlement", g, "-", "-"))

MemberWiseSummary(g) ==
    Apply(get_member_wise_summary(Store, g, now),
          OpRec("get_member_wise_summary", g, "-", "-"))

ArchivedCount(g) == IF g \in DOMAIN data THEN Len(data[g].settlements) ELSE 0

ResetMonth(g) ==
    /\ \/ ArchivedCount(g) < MaxArchived
       \/ calculate_settlement(Store, g, now).ret.kind # "Settlement"
    /\ Apply(reset_month(Store, g, now), OpRec("reset_month", g, "-", "-"))

CheckMonthEnd(pointMaps) ==
    \E points \in pointMaps :
        Apply(check_month_end(Store, points, now), OpRec("check_month_end", "-", "-", points))

CheckMealReminder(pointMaps) ==
    \E points \in pointMaps :
        Apply(check_meal_reminder(Store, points, now),
              OpRec("check_meal_reminder", "-", "-", points))

(* An engine call that has changed memory and not yet reached its closing
   save_data: ret holds what the call will return *)
RetInFlight(r) == [kind |-> "InFlight", settlement |-> <<r>>]

InFlight == ret.kind = "InFlight"

(* An engine call up to its closing save_data. The group is created or
   upgraded, and that saved, by init_group at the head of the call; a call that
   ends without save_data is over in this step. *)
BeginCall(r, o) ==
    LET head == init_group(Store, o.g, now)
    IN  /\ ~InFlight
        /\ steps < MaxOps
        /\ steps' = steps + 1
        /\ op' = o
        /\ data' = r.st.data
        /\ UNCHANGED <<now, context, loop>>
        /\ IF r.st.disk # head.disk
           THEN disk' = head.disk /\ ret' = RetInFlight(r.ret)
           ELSE disk' = r.st.disk /\ ret' = r.ret

(* The closing save_data of the call in flight, and its return *)
SaveCompletes ==
    /\ InFlight
    /\ disk' = save_data(Store).disk
    /\ ret' = ret.settlement[1]
    /\ UNCHANGED <<data, now, op, steps, context, loop>>

(* A file cut short by a write that failed *)
TornFile == [file |-> "torn", content |-> EmptyDict]

(* Mutant: the engine method catches the error of save_data and returns as if
   the save had been made *)
ReturnOnSaveError_Swallowed(r) == r

(* What a call returns when its closing save_data raises: no engine method
   catches, the exception leaves the method *)
ReturnOnSaveError(r) == RetRaise

(* The closing save_data raises: open() fails and the file is as it was, or
   the dump fails after open() has truncated the file *)
SaveFails ==
    /\ InFlight
    /\ disk' \in {disk, TornFile}
    /\ ret' = ReturnOnSaveError(ret.settlement[1])
    /\ UNCHANGED <<data, now, op, steps, context, loop>>

(* The process dies and is started again: memory is what load_data reads. A
   torn file cannot be loaded: json.load raises and the process does not
   start. *)
Crash ==
    /\ disk.file # "torn"
    /\ data' = load_data(disk)
    /\ op' = OpRec("load_data", "-", "-", "-")
    /\ ret' = RetNone
    /\ UNCHANGED <<disk, now, steps, context, loop>>

(* The handlers that change a group, and the month-end job for one group, as
   the sequence of their engine calls and await expressions *)
Program(flow) ==
    CASE flow = "description_handler" -> <<"add_expense", "await", "await">>
      [] flow = "admin_edit_meal_count_handler" ->
            <<"update_single_meal_count", "await", "await">>
      [] flow = "meal_finish_callback" -> <<"await", "set_meal_counts", "await">>
      [] flow = "reset_month" -> <<"await", "reset_month", "await">>
      [] flow = "check_month_end" ->
            <<"is_meal_data_submitted", "await",
              "calculate_settlement", "await", "reset_month", "await">>

HandlerFlows ==
    {"description_handler", "admin_edit_meal_count_handler", "meal_finish_callback",
     "reset_month"}

(* Mutant: save_data is a coroutine that the engine methods await *)
AwaitStatements_Save == {"await", "save_data"}

(* The statements at which a coroutine hands control back to the event loop:
   the await expressions. The engine methods and save_data are plain functions
   and hold no await. *)
AwaitStatements == {"await"}

(* The statement after statement n of the coroutine; 0 when the coroutine is
   over *)
NextPc(c, n) == IF n > Len(Program(loop.flow[c])) THEN 0 ELSE n

(* The statement of check_month_end that follows a call: a group without meal
   data gets the notice and the loop moves on, a group with nothing to settle
   is passed over *)
AfterCall(c, stmt, r) ==
    IF loop.flow[c] # "check_month_end"
    THEN NextPc(c, loop.pc[c] + 1)
    ELSE CASE stmt = "is_meal_data_submitted" ->
                    IF r.kind = "True" THEN loop.pc[c] + 2 ELSE loop.pc[c] + 1
           [] stmt = "calculate_settlement" ->
                    IF r.kind = "Settlement" THEN loop.pc[c] + 1 ELSE 0
           [] OTHER -> NextPc(c, loop.pc[c] + 1)

(* The event loop starts a coroutine: the handler of an update once the handler
   of the update before it is over, the job when the scheduler fires it *)
CoStart(c, flow) ==
    /\ loop.running = "-"
    /\ loop.pc[c] = 0
    /\ steps < MaxOps
    /\ loop' = [loop EXCEPT !.running = c, !.pc[c] = 1, !.flow[c] = flow]
    /\ UNCHANGED <<data, disk, now, op, ret, steps, context>>

(* A coroutine reaches an await expression and is suspended; the event loop
   resumes it later *)
CoAwait(c) ==
    /\ loop.running \in {"-", c}
    /\ loop.pc[c] > 0
    /\ ~loop.inside[c]
    /\ Program(loop.flow[c])[loop.pc[c]] = "await"
    /\ loop' = [loop EXCEPT
                    !.running = "-",
                    !.pc[c] = IF loop.flow[c] = "check_month_end" /\ loop.pc[c] = 2
                              THEN 0
                              ELSE NextPc(c, loop.pc[c] + 1)]
    /\ UNCHANGED <<data, disk, now, op, ret, steps, context>>

(* A coroutine calls an engine method: the method runs up to its closing
   save_data, or to its return when it saves nothing more *)
CoCall(c, stmt, r, o) ==
    LET head == init_group(Store, o.g, now)
        saves == r.st.disk # head.disk
    IN  /\ loop.running \in {"-", c}
        /\ loop.pc[c] > 0
        /\ ~loop.inside[c]
        /\ Program(loop.flow[c])[loop.pc[c]] = stmt
        /\ steps < MaxOps
        /\ steps' = steps + 1
        /\ op' = o
        /\ data' = r.st.data
        /\ disk' = head.disk
        /\ ret' = IF saves THEN ret ELSE r.ret
        /\ loop' = [loop EXCEPT
                        !.running = IF saves /\ "save_data" \in AwaitStatements
                                    THEN "-"
                                    ELSE IF ~saves /\ AfterCall(c, stmt, r.ret) = 0
                                         THEN "-"
                                         ELSE c,
                        !.inside[c] = saves,
                        !.pending[c] = r.ret,
                        !.pc[c] = IF saves THEN @ ELSE AfterCall(c, stmt, r.ret)]
        /\ UNCHANGED <<now, context>>

(* The closing save_data of the engine method a coroutine is in, and the
   method's return *)
CoSave(c) ==
    /\ loop.running \in {"-", c}
    /\ loop.inside[c]
    /\ disk' = save_data(Store).disk
    /\ ret' = loop.pending[c]
    /\ loop' = [loop EXCEPT
                    !.running = c,
                    !.inside[c] = FALSE,
                    !.pc[c] = AfterCall(c, Program(loop.flow[c])[loop.pc[c]],
                                        loop.pending[c])]
    /\ UNCHANGED <<data, now, op, steps, context>>

(* The engine calls of the coroutines, with their arguments *)
CoEngine(c, g) ==
    \/ \E a \in {2} :
            CoCall(c, "add_expense", add_expense(Store, g, a, "rice", "Alice", "u1", now),
                   OpRec("add_expense", g, "u1", "Alice"))
    \/ \E n \in {0, 1} :
            CoCall(c, "update_single_meal_count",
                   update_single_meal_count(Store, g, "u1", n, now),
                   [OpRec("update_single_meal_count", g, "u1", "-") EXCEPT
                        !.meal_data = DictSet(EmptyDict, "u1", n)])
    \/ \E m \in {[u \in {"u1"} |-> 1]} :
            CoCall(c, "set_meal_counts", set_meal_counts(Store, g, m, "Alice", now),
                   [OpRec("set_meal_counts", g, "-", "Alice") EXCEPT !.meal_data = m])
    \/ CoCall(c, "reset_month", reset_month(Store, g, now),
               OpRec("reset_month", g, "-", "-"))
    \/ LET r == is_meal_data_submitted(Store, g, now)
       IN  CoCall(c, "is_meal_data_submitted", [st |-> r.st, ret |-> RetBool(r.ret)],
                  OpRec("is_meal_data_submitted", g, "-", "-"))
    \/ CoCall(c, "calculate_settlement", calculate_settlement(Store, g, now),
               OpRec("calculate_settlement", g, "-", "-"))

----------------------------------------------------------------------------
(* Front end: the handlers of one user's updates in one group chat *)

Chat == "g1"

(* int(text): the value, or ValueError for a text that is no integer literal.
   Surrounding blanks and a sign are part of the literal. *)
PyInt(text) ==
    CASE text = "0" -> [ok |-> TRUE, v |-> 0]
      [] text = "1" -> [ok |-> TRUE, v |-> 1]
      [] text = " 2 " -> [ok |-> TRUE, v |-> 2]
      [] text = "-1" -> [ok |-> TRUE, v |-> -1]
      [] OTHER -> [ok |-> FALSE, v |-> 0]

(* Mutant: the test of the sign is lost *)
InvalidCount_Never(count) == FALSE

(* if count < 0: raise ValueError *)
InvalidCount(count) == count < 0

(* The states in which a conversation takes a text message *)
TextStates(c) ==
    CASE c = "expense" -> {"AMOUNT", "DESCRIPTION"}
      [] c = "admin_expense" -> {"ADMIN_EXPENSE_AMOUNT", "ADMIN_EXPENSE_DESC"}
      [] c = "admin_edit_meal" -> {"EDIT_MEAL_COUNT"}
      [] c = "meal" -> {"MEAL_COUNT_INPUT"}

(* The handler a text message goes to: the first conversation, in the order of
   registration, that waits for a text; handle_text_message when none does *)
RECURSIVE TextTargetFrom(_)
TextTargetFrom(i) ==
    IF i > Len(ConversationOrder) THEN "handle_text_message"
    ELSE IF context.conv[ConversationOrder[i]] \in TextStates(ConversationOrder[i])
         THEN ConversationOrder[i]
         ELSE TextTargetFrom(i + 1)

TextTarget == TextTargetFrom(1)

(* The conversation whose fallback takes /cancel: the first one begun *)
RECURSIVE CancelTargetFrom(_)
CancelTargetFrom(i) ==
    IF i > Len(ConversationOrder) THEN "-"
    ELSE IF context.conv[ConversationOrder[i]] # "END"
         THEN ConversationOrder[i]
         ELSE CancelTargetFrom(i + 1)

CancelTarget == CancelTargetFrom(1)

(* context.user_data holds the keys *)
Has(keys) == keys \subseteq DOMAIN context.user_data

(* One handler run to its end or to the exception that ends it: memory, file,
   user_data and conversation state as it leaves them; calls is the number of
   engine calls it made *)
Handled(name, arg, st, r, ctx, calls) ==
    /\ steps + calls <= MaxOps
    /\ steps' = steps + calls
    /\ op' = OpRec(name, Chat, "-", arg)
    /\ data' = st.data
    /\ disk' = st.disk
    /\ ret' = r
    /\ context' = ctx
    /\ UNCHANGED <<now, loop>>

(* A handler that raised before it changed anything *)
Raised(name, arg) == Handled(name, arg, Store, RetRaise, context, 0)

(* context.user_data.clear() *)
Cleared == [context EXCEPT !.user_data = EmptyDict, !.alias = {}]

(* d[user_id] = count on a dict that is also the stored submission of the
   months in `months`: the stored submissions show the new count *)
WriteThrough(d, g, months, user_id, count) ==
    IF g \notin DOMAIN d THEN d
    ELSE [d EXCEPT ![g].meal_counts =
            [m \in DOMAIN @ |->
                IF m \in months
                THEN [@[m] EXCEPT !.data = DictSet(@, user_id, count)]
                ELSE @[m]]]

(* /addmeals and the Add Meals button *)
add_meals_start ==
    LET ud == DictSet(DictSet(DictSet(context.user_data, "group_id", Chat),
                              "submitted_by", "Alice"),
                      "meal_data_collection", EmptyDict)
        ctx == [context EXCEPT !.user_data = ud, !.alias = {}]
    IN  /\ context.conv["meal"] = "END"
        /\ IF Chat \notin DOMAIN data
           THEN Handled("add_meals_start", "-", Store, RetRaise, ctx, 0)
           ELSE IF DOMAIN data[Chat].members = {}
           THEN Handled("add_meals_start", "-", Store, RetNone, ctx, 0)
           ELSE Handled("add_meals_start", "-", Store, RetNone,
                        [ctx EXCEPT !.conv["meal"] = "MEAL_MEMBER_SELECT"], 0)

(* A button of the member list: a member, Finish & Save, or Cancel *)
meal_member_select_handler(choice) ==
    /\ context.conv["meal"] = "MEAL_MEMBER_SELECT"
    /\ CASE choice = "cancel" ->
                Handled("meal_member_select_handler", choice, Store, RetNone,
                        [Cleared EXCEPT !.conv["meal"] = "END"], 0)
         [] choice = "finish" ->
                IF ~Has({"meal_data_collection"})
                    \/ context.user_data["meal_data_collection"] = EmptyDict
                THEN Handled("meal_member_select_handler", choice, Store, RetNone, context, 0)
                ELSE IF ~Has({"group_id"})
                THEN Raised("meal_member_select_handler", choice)
                ELSE Handled("meal_member_select_handler", choice, Store, RetNone,
                             [context EXCEPT !.conv["meal"] = "MEAL_CONFIRM"], 0)
         [] OTHER ->
                IF ~Has({"group_id"}) \/ Chat \notin DOMAIN data
                    \/ choice \notin DOMAIN data[Chat].members
                THEN Raised("meal_member_select_handler", choice)
                ELSE LET ud == DictSet(DictSet(context.user_data, "current_member_id", choice),
                                       "current_member_name", data[Chat].members[choice].name)
                         ctx == [context EXCEPT !.user_data = ud]
                     IN  IF ~Has({"meal_data_collection"})
                         THEN Handled("meal_member_select_handler", choice, Store, RetRaise,
                                      ctx, 0)
                         ELSE Handled("meal_member_select_handler", choice, Store, RetNone,
                                      [ctx EXCEPT !.conv["meal"] = "MEAL_COUNT_INPUT"], 0)

(* The text typed as a member's meal count *)
meal_count_input_handler(text) ==
    LET count == PyInt(text)
    IN  /\ TextTarget = "meal"
        /\ IF ~count.ok \/ InvalidCount(count.v)
           THEN Handled("meal_count_input_handler", text, Store, RetNone, context, 0)
           ELSE IF ~Has({"current_member_id", "current_member_name", "meal_data_collection"})
           THEN Raised("meal_count_input_handler", text)
           ELSE LET user_id == context.user_data["current_member_id"]
                    ud == [context.user_data EXCEPT
                                !["meal_data_collection"] = DictSet(@, user_id, count.v)]
                    st == [Store EXCEPT
                                !.data = WriteThrough(@, Chat, context.alias, user_id, count.v)]
                    ctx == [context EXCEPT !.user_data = ud]
                IN  IF ~Has({"group_id"})
                    THEN Handled("meal_count_input_handler", text, st, RetRaise, ctx, 0)
                    ELSE Handled("meal_count_input_handler", text, st, RetNone,
                                 [ctx EXCEPT !.conv["meal"] = "MEAL_MEMBER_SELECT"], 0)

(* The buttons of the confirmation: "Yes, Save" hands the collected dict to
   set_meal_counts, which stores that very object, and then edits the message;
   user_data is cleared only when that edit did not raise *)
meal_finish_callback(choice, sent) ==
    /\ context.conv["meal"] = "MEAL_CONFIRM"
    /\ IF choice = "mealfinish_yes"
       THEN IF ~Has({"group_id", "submitted_by", "meal_data_collection"})
            THEN Raised("meal_finish_callback", choice)
            ELSE LET r == set_meal_counts(Store, Chat,
                                          context.user_data["meal_data_collection"],
                                          context.user_data["submitted_by"], now)
                 IN  IF sent
                     THEN Handled("meal_finish_callback", choice, r.st, r.ret,
                                  [Cleared EXCEPT !.conv["meal"] = "END"], 1)
                     ELSE Handled("meal_finish_callback", choice, r.st, RetRaise,
                                  [context EXCEPT !.alias = @ \cup {now}], 1)
       ELSE IF ~Has({"group_id"})
            THEN Raised("meal_finish_callback", choice)
            ELSE Handled("meal_finish_callback", choice, Store, RetNone,
                         [context EXCEPT !.conv["meal"] = "MEAL_MEMBER_SELECT"], 0)

(* /cancel, the fallback of every conversation *)
cancel ==
    /\ CancelTarget # "-"
    /\ Handled("cancel", "-", Store, RetNone,
               [Cleared EXCEPT !.conv[CancelTarget] = "END"], 0)

(* /editmeal and the Edit Meal button, pressed by an admin *)
admin_edit_meal_start ==
    LET r == is_meal_data_submitted(Store, Chat, now)
    IN  /\ context.conv["admin_edit_meal"] = "END"
        /\ IF ~r.ret
           THEN Handled("admin_edit_meal_start", "-", r.st, RetNone, context, 1)
           ELSE Handled("admin_edit_meal_start", "-", r.st, RetNone,
                        [context EXCEPT
                            !.user_data = DictSet(@, "group_id", Chat),
                            !.conv["admin_edit_meal"] = "EDIT_MEAL_SELECT"], 1)

(* A button of the list of members to edit, or Cancel *)
admin_edit_meal_select(choice) ==
    /\ context.conv["admin_edit_meal"] = "EDIT_MEAL_SELECT"
    /\ IF choice = "cancel"
       THEN Handled("admin_edit_meal_select", choice, Store, RetNone,
                    [Cleared EXCEPT !.conv["admin_edit_meal"] = "END"], 0)
       ELSE IF ~Has({"group_id"}) \/ Chat \notin DOMAIN data
       THEN Raised("admin_edit_meal_select", choice)
       ELSE LET found == get_current_month_meals(Store, Chat, now)
                meal_data == found.ret
                ud == DictSet(DictSet(DictSet(context.user_data, "edit_user_id", choice),
                                      "edit_user_name", "Alice"),
                              "current_count",
                              IF choice \in DOMAIN meal_data THEN meal_data[choice] ELSE 0)
            IN  Handled("admin_edit_meal_select", choice, found.st, RetNone,
                        [context EXCEPT !.user_data = ud,
                                        !.conv["admin_edit_meal"] = "EDIT_MEAL_COUNT"], 0)

(* The text typed as the new count of the member chosen *)
admin_edit_meal_count_handler(text, sent) ==
    LET new_count == PyInt(text)
    IN  /\ TextTarget = "admin_edit_meal"
        /\ IF ~new_count.ok \/ InvalidCount(new_count.v)
           THEN Handled("admin_edit_meal_count_handler", text, Store, RetNone, context, 0)
           ELSE IF ~Has({"group_id", "edit_user_id", "edit_user_name", "current_count"})
           THEN Raised("admin_edit_meal_count_handler", text)
           ELSE LET user_id == context.user_data["edit_user_id"]
                    shared == now \in context.alias
                    st == IF shared
                          THEN [Store EXCEPT !.data = WriteThrough(@, Chat, context.alias,
                                                                   user_id, new_count.v)]
                          ELSE Store
                    r == update_single_meal_count(st, Chat, user_id, new_count.v, now)
                    ud == IF shared /\ Has({"meal_data_collection"})
                          THEN [context.user_data EXCEPT
                                    !["meal_data_collection"] =
                                        DictSet(@, user_id, new_count.v)]
                          ELSE context.user_data
                IN  IF sent
                    THEN Handled("admin_edit_meal_count_handler", text, r.st, r.ret,
                                 [Cleared EXCEPT !.conv["admin_edit_meal"] = "END"], 1)
                    ELSE Handled("admin_edit_meal_count_handler", text, r.st, RetRaise,
                                 [context EXCEPT !.user_data = ud], 1)

(* A Python float: a finite value, an infinity with its sign in v, or NaN *)
Float(kind, v) == [ok |-> TRUE, kind |-> kind, v |-> v]

(* float(text): the value, or ValueError for a text that is no float literal.
   'nan' and 'inf' are float literals. *)
PyFloat(text) ==
    CASE text \in {"5", "5.0"} -> Float("finite", 5)
      [] text \in {"0", "0.0"} -> Float("finite", 0)
      [] text \in {"-3", "-3.0"} -> Float("finite", -3)
      [] text = "inf" -> Float("inf", 1)
      [] text = "nan" -> Float("nan", 0)
      [] OTHER -> [ok |-> FALSE, kind |-> "ValueError", v |-> 0]

(* str(x) of a float, as the f-string of the quick-expense button writes it *)
PyStr(x) ==
    CASE x.kind = "nan" -> "nan"
      [] x.kind = "inf" -> IF x.v > 0 THEN "inf" ELSE "-inf"
      [] x.v = 5 -> "5.0"
      [] x.v = 0 -> "0.0"
      [] x.v = -3 -> "-3.0"

(* x > 0 on floats: false for NaN *)
PyGreaterThanZero(x) == x.kind # "nan" /\ x.v > 0

(* Mutant: the test of the amount is lost *)
InvalidAmount_Never(amount) == FALSE

(* if amount <= 0: raise ValueError. Every comparison with NaN is false. *)
InvalidAmount(amount) == amount.kind # "nan" /\ amount.v <= 0

(* /expense *)
expense_start ==
    LET r == add_member(Store, Chat, "Alice", "u1", "al", now)
        ud == DictSet(DictSet(DictSet(DictSet(context.user_data, "action", "expense"),
                                      "group_id", Chat),
                              "user_id", "u1"),
                      "user_name", "Alice")
    IN  /\ context.conv["expense"] = "END"
        /\ Handled("expense_start", "-", r.st, r.ret,
                   [context EXCEPT !.user_data = ud, !.conv["expense"] = "AMOUNT"], 1)

(* The text typed as the amount, in /expense (amount_handler) and in
   /addexpense (admin_expense_amount_handler): the two bodies are the same *)
AmountTyped(c, name, text, asked, next) ==
    LET amount == PyFloat(text)
    IN  /\ TextTarget = c
        /\ context.conv[c] = asked
        /\ IF ~amount.ok \/ InvalidAmount(amount)
           THEN Handled(name, text, Store, RetNone, context, 0)
           ELSE Handled(name, text, Store, RetNone,
                        [context EXCEPT !.user_data = DictSet(@, "amount", amount),
                                        !.conv[c] = next], 0)

amount_handler(text) ==
    AmountTyped("expense", "amount_handler", text, "AMOUNT", "DESCRIPTION")

admin_expense_amount_handler(text) ==
    AmountTyped("admin_expense", "admin_expense_amount_handler", text,
                "ADMIN_EXPENSE_AMOUNT", "ADMIN_EXPENSE_DESC")

(* The text typed as the description: the expense is recorded with the amount
   kept in user_data, then the bot replies; user_data is cleared and the
   conversation ended only when the reply did not raise *)
DescriptionTyped(c, name, text, asked, keys, id_key, name_key, sent) ==
    /\ TextTarget = c
    /\ context.conv[c] = asked
    /\ IF ~Has(keys)
       THEN Raised(name, text)
       ELSE LET r == add_expense(Store, Chat, context.user_data["amount"], text,
                                 context.user_data[name_key], context.user_data[id_key],
                                 now)
            IN  /\ ExpenseCount(Chat) < MaxExpenses
                /\ IF sent
                   THEN Handled(name, text, r.st, r.ret, [Cleared EXCEPT !.conv[c] = "END"], 1)
                   ELSE Handled(name, text, r.st, RetRaise, context, 1)

description_handler(text, sent) ==
    DescriptionTyped("expense", "description_handler", text, "DESCRIPTION",
                     {"amount", "group_id", "user_id", "user_name"},
                     "user_id", "user_name", sent)

admin_expense_desc_handler(text, sent) ==
    DescriptionTyped("admin_expense", "admin_expense_desc_handler", text,
                     "ADMIN_EXPENSE_DESC",
                     {"amount", "group_id", "selected_user_id", "selected_user_name"},
                     "selected_user_id", "selected_user_name", sent)

(* /addexpense, sent by an admin *)
admin_add_expense_start ==
    /\ context.conv["admin_expense"] = "END"
    /\ IF Chat \notin DOMAIN data
       THEN Raised("admin_add_expense_start", "-")
       ELSE IF DOMAIN data[Chat].members = {}
       THEN Handled("admin_add_expense_start", "-", Store, RetNone, context, 0)
       ELSE Handled("admin_add_expense_start", "-", Store, RetNone,
                    [context EXCEPT !.user_data = DictSet(@, "group_id", Chat),
                                    !.conv["admin_expense"] = "ADMIN_EXPENSE_MEMBER"], 0)

(* A button of the list of members, or Cancel *)
admin_expense_member_select(choice) ==
    /\ context.conv["admin_expense"] = "ADMIN_EXPENSE_MEMBER"
    /\ IF choice = "cancel"
       THEN Handled("admin_expense_member_select", choice, Store, RetNone,
                    [Cleared EXCEPT !.conv["admin_expense"] = "END"], 0)
       ELSE IF ~Has({"group_id"}) \/ Chat \notin DOMAIN data
                \/ choice \notin DOMAIN data[Chat].members
       THEN Raised("admin_expense_member_select", choice)
       ELSE Handled("admin_expense_member_select", choice, Store, RetNone,
                    [context EXCEPT
                        !.user_data = DictSet(DictSet(@, "selected_user_id", choice),
                                              "selected_user_name",
                                              data[Chat].members[choice].name),
                        !.conv["admin_expense"] = "ADMIN_EXPENSE_AMOUNT"], 0)

(* A text outside every conversation: the description of a quick expense that
   is under way, else a number that offers a quick expense, else the menu *)
handle_text_message(text, sent) ==
    LET amount == PyFloat(text)
    IN  /\ TextTarget = "handle_text_message"
        /\ IF Has({"quick_expense_amount"})
           THEN LET r == add_expense(Store, Chat, context.user_data["quick_expense_amount"],
                                     text, context.user_data["quick_expense_user_name"],
                                     context.user_data["quick_expense_user_id"], now)
                IN  /\ ExpenseCount(Chat) < MaxExpenses
                    /\ IF sent
                       THEN Handled("handle_text_message", text, r.st, r.ret, Cleared, 1)
                       ELSE Handled("handle_text_message", text, r.st, RetRaise, context, 1)
           ELSE /\ sent
                /\ IF amount.ok /\ PyGreaterThanZero(amount)
                   THEN LET r == add_member(Store, Chat, "Alice", "u1", "al", now)
                        IN  Handled("handle_text_message", text, r.st, r.ret,
                                    [context EXCEPT !.buttons = @ \cup {PyStr(amount)}], 1)
                   ELSE Handled("handle_text_message", text, Store, RetNone, context, 0)

(* The button "Yes, Add Expense" of a quick-expense offer *)
quick_expense_callback(button) ==
    LET amount == PyFloat(button)
        ud == DictSet(DictSet(DictSet(DictSet(context.user_data,
                                              "quick_expense_amount", amount),
                                      "quick_expense_group", Chat),
                              "quick_expense_user_id", "u1"),
                      "quick_expense_user_name", "Alice")
    IN  /\ button \in context.buttons
        /\ IF ~amount.ok
           THEN Raised("quick_expense_callback", button)
           ELSE Handled("quick_expense_callback", button, Store, RetNone,
                        [context EXCEPT !.user_data = ud], 0)

(* The step just taken was the engine call `name` *)
Called(name) == steps' = steps + 1 /\ op'.name = name

(* The group as the call finds it, after the lazy creation or upgrade *)
Found(g) == init_group(Store, g, now).data[g]

----------------------------------------------------------------------------
(* Spec: the period life cycle of one group, from the file found at start *)

LifeProfiles == {[name |-> "Alice", username |-> "al"]}

LifeAuthors == {[id |-> "u1", name |-> "Alice"], [id |-> "u2", name |-> "Carol"]}

LifeAmounts == {2}

LifeMealDatas == {EmptyDict, [u \in {"u1"} |-> 0], [u \in {"u1"} |-> 1]}

LifeCounts == {0, 1}

Expense(amount, name, id, t) ==
    [amount |-> amount, description |-> "rice", added_by |-> name, added_by_id |-> id,
     date |-> t, month |-> t]

Submission(meal_data, t) ==
    [data |-> meal_data, submitted_by |-> "Alice", submitted_date |-> t]

(* A group in the middle of month 1 with a carry-forward of 1 from earlier months *)
MidPeriodGroup ==
    [NewGroup(1) EXCEPT
        !.carry_forward = Rat(1),
        !.expenses = <<Expense(2, "Alice", "u1", 1)>>,
        !.meal_counts = [m \in {1} |-> Submission([u \in {"u1"} |-> 1], 1)],
        !.meal_data_submitted = TRUE]

InitFiles == {NoFile} \cup {File([g \in {"g1"} |-> grp]) : grp \in {MidPeriodGroup, LegacyGroup}}

Init ==
    /\ disk \in InitFiles
    /\ data = load_data(disk)
    /\ now = 1
    /\ op = OpRec("load_data", "-", "-", "-")
    /\ ret = RetNone
    /\ steps = 0
    /\ context = NoContext
    /\ loop = NoLoop

Next ==
    \/ Tick
    \/ \E g \in Groups :
        \/ AddMember(g, {"u1"}, LifeProfiles)
        \/ AddExpense(g, LifeAmounts, LifeAuthors)
        \/ SetMealCounts(g, LifeMealDatas)
        \/ UpdateSingleMealCount(g, {"u1"}, LifeCounts)
        \/ CalculateSettlement(g)
        \/ ResetMonth(g)

Spec == Init /\ [][Next]_vars

----------------------------------------------------------------------------
(* SpecSettle: one settlement computed on each file of a bounded family *)

SettleAmounts == {1, 2}

SettleAuthors == {[id |-> "u1", name |-> "Alice"], [id |-> "u2", name |-> "Carol"]}

SettleMonths == {0, 1}

SettleMealValues == {0, 1, 2}

SettleCarry == {-1, 0, 1}

SettleExpenses ==
    UNION {[1..n -> {Expense(a, by.name, by.id, t) :
                        a \in SettleAmounts, by \in SettleAuthors, t \in SettleMonths}]
           : n \in 0..MaxExpenses}

SettleMealCounts ==
    {EmptyDict} \cup
    {[m \in {1} |-> Submission(md, 1)] :
        md \in UNION {[S -> SettleMealValues] : S \in SUBSET Users}}

SettleMembers ==
    {EmptyDict, [u \in {"u1"} |-> [name |-> "Al", username |-> "al", joined_date |-> 0]]}

SettleGroups ==
    {LegacyGroup} \cup
    {[NewGroup(1) EXCEPT
        !.members = mb,
        !.expenses = es,
        !.meal_counts = mc,
        !.meal_data_submitted = (mc # EmptyDict),
        !.carry_forward = Rat(c)]
     : mb \in SettleMembers, es \in SettleExpenses, mc \in SettleMealCounts, c \in SettleCarry}

TwoMembers ==
    [u \in Users |-> [name |-> IF u = "u1" THEN "Alice" ELSE "Bob",
                      username |-> "", joined_date |-> 1]]

(* A sole spender of 500 with all 10 meals, nobody registered *)
SoleSpenderGroup ==
    [NewGroup(1) EXCEPT
        !.expenses = <<Expense(500, "Alice", "u1", 1)>>,
        !.meal_counts = [m \in {1} |-> Submission([u \in {"u1"} |-> 10], 1)],
        !.meal_data_submitted = TRUE]

(* Two members: one spends 600 and eats 20 meals, the other eats 10 *)
TwoMemberGroup ==
    [NewGroup(1) EXCEPT
        !.members = TwoMembers,
        !.expenses = <<Expense(600, "Alice", "u1", 1)>>,
        !.meal_counts = [m \in {1} |->
                            Submission([u \in Users |-> IF u = "u1" THEN 20 ELSE 10], 1)],
        !.meal_data_submitted = TRUE]

(* A carry-forward of -50 going into 1000 of expenses and 100 meals *)
DeficitGroup ==
    [NewGroup(1) EXCEPT
        !.members = TwoMembers,
        !.carry_forward = Rat(-50),
        !.expenses = <<Expense(400, "Alice", "u1", 1), Expense(600, "Bob", "u2", 1)>>,
        !.meal_counts = [m \in {1} |-> Submission([u \in Users |-> 50], 1)],
        !.meal_data_submitted = TRUE]

(* Carol spends 300 and is absent from the meal submission *)
AbsentSpenderGroup ==
    [NewGroup(1) EXCEPT
        !.members = [u \in {"u1"} |-> [name |-> "Alice", username |-> "al", joined_date |-> 1]],
        !.expenses = <<Expense(300, "Carol", "u2", 1)>>,
        !.meal_counts = [m \in {1} |-> Submission([u \in {"u1"} |-> 10], 1)],
        !.meal_data_submitted = TRUE]

ScenarioGroups == {SoleSpenderGroup, TwoMemberGroup, DeficitGroup, AbsentSpenderGroup}

InitSettle ==
    /\ disk \in {File([g \in {"g1"} |-> grp]) : grp \in SettleGroups \cup ScenarioGroups}
    /\ data = load_data(disk)
    /\ now = 1
    /\ op = OpRec("load_data", "-", "-", "-")
    /\ ret = RetNone
    /\ steps = MaxOps - 1
    /\ context = NoContext
    /\ loop = NoLoop

NextSettle == \E g \in Groups : CalculateSettlement(g)

SpecSettle == InitSettle /\ [][NextSettle]_vars

----------------------------------------------------------------------------
(* SpecSummary: one member-wise summary asked on each file of the family *)

NextSummary == \E g \in Groups : MemberWiseSummary(g)

SpecSummary == InitSettle /\ [][NextSummary]_vars

----------------------------------------------------------------------------
(* SpecMembers: registration *)

MemberProfiles == {[name |-> "Alice", username |-> "al"], [name |-> "Bob", username |-> ""]}

RegisteredGroup ==
    [NewGroup(1) EXCEPT
        !.members = [u \in {"u1"} |-> [name |-> "Alice", username |-> "al", joined_date |-> 1]]]

InitMembers ==
    /\ disk \in {NoFile, File([g \in {"g1"} |-> RegisteredGroup])}
    /\ data = load_data(disk)
    /\ now = 1
    /\ op = OpRec("load_data", "-", "-", "-")
    /\ ret = RetNone
    /\ steps = 0
    /\ context = NoContext
    /\ loop = NoLoop

NextMembers ==
    \/ Tick
    \/ \E g \in Groups :
        \/ Start(g)
        \/ AddMember(g, Users, MemberProfiles)

SpecMembers == InitMembers /\ [][NextMembers]_vars

----------------------------------------------------------------------------
(* SpecMeals: meal counts submitted and adjusted over the months *)

MealValues == {0, 1}

MealDatas == UNION {[S -> MealValues] : S \in SUBSET Users}

(* A group with a registered member and the month's counts of two users *)
SubmittedGroup ==
    [NewGroup(1) EXCEPT
        !.members = [u \in {"u1"} |-> [name |-> "Alice", username |-> "al", joined_date |-> 1]],
        !.meal_counts = [m \in {1} |-> Submission([u \in Users |-> 1], 1)],
        !.meal_data_submitted = TRUE]

InitMeals ==
    /\ disk \in {NoFile, File([g \in {"g1"} |-> SubmittedGroup])}
    /\ data = load_data(disk)
    /\ now = 1
    /\ op = OpRec("load_data", "-", "-", "-")
    /\ ret = RetNone
    /\ steps = 0
    /\ context = NoContext
    /\ loop = NoLoop

NextMeals ==
    \/ Tick
    \/ \E g \in Groups :
        \/ SetMealCounts(g, MealDatas)
        \/ UpdateSingleMealCount(g, Users, MealValues)

SpecMeals == InitMeals /\ [][NextMeals]_vars

----------------------------------------------------------------------------
(* SpecLegacy: one engine call on a file written before the newer fields
   existed, or on no file *)

(* A record that lacks the fields S: what the record shows for them is not in
   the file *)
LegacyRecord(S) == [MidPeriodGroup EXCEPT !.missing = S]

InitLegacy ==
    /\ disk \in {NoFile} \cup {File([g \in {"g1"} |-> LegacyRecord(S)]) : S \in SUBSET UpgradedFields}
    /\ data = load_data(disk)
    /\ now = 1
    /\ op = OpRec("load_data", "-", "-", "-")
    /\ ret = RetNone
    /\ steps = MaxOps - 1
    /\ context = NoContext
    /\ loop = NoLoop

NextLegacy ==
    \/ Tick
    \/ \E g \in Groups :
        \/ Start(g)
        \/ AddMember(g, {"u1"}, LifeProfiles)
        \/ AddExpense(g, LifeAmounts, LifeAuthors)
        \/ SetMealCounts(g, LifeMealDatas)
        \/ UpdateSingleMealCount(g, {"u1"}, LifeCounts)
        \/ CalculateSettlement(g)
        \/ MemberWiseSummary(g)
        \/ ResetMonth(g)

SpecLegacy == InitLegacy /\ [][NextLegacy]_vars

----------------------------------------------------------------------------
(* SpecCrash: engine calls with the moment between the change of memory and
   the closing save_data, at which the process may die *)

InitCrash ==
    /\ disk \in InitFiles
    /\ data = load_data(disk)
    /\ now = 1
    /\ op = OpRec("load_data", "-", "-", "-")
    /\ ret = RetNone
    /\ steps = MaxOps - 3
    /\ context = NoContext
    /\ loop = NoLoop

NextCrash ==
    \/ Tick
    \/ SaveCompletes
    \/ Crash
    \/ \E g \in Groups :
        \/ BeginCall([st |-> init_group(Store, g, now), ret |-> RetNone],
                     OpRec("init_group", g, "-", "-"))
        \/ \E p \in LifeProfiles :
                BeginCall(add_member(Store, g, p.name, "u1", p.username, now),
                          OpRec("add_member", g, "u1", p.name))
        \/ \E a \in LifeAmounts, by \in LifeAuthors :
                BeginCall(add_expense(Store, g, a, "rice", by.name, by.id, now),
                          OpRec("add_expense", g, by.id, by.name))
        \/ \E m \in LifeMealDatas :
                BeginCall(set_meal_counts(Store, g, m, "Alice", now),
                          [OpRec("set_meal_counts", g, "-", "Alice") EXCEPT !.meal_data = m])
        \/ \E c \in LifeCounts :
                BeginCall(update_single_meal_count(Store, g, "u1", c, now),
                          [OpRec("update_single_meal_count", g, "u1", "-") EXCEPT
                                !.meal_data = DictSet(EmptyDict, "u1", c)])
        \/ BeginCall(calculate_settlement(Store, g, now),
                     OpRec("calculate_settlement", g, "-", "-"))
        \/ BeginCall(reset_month(Store, g, now), OpRec("reset_month", g, "-", "-"))

SpecCrash == InitCrash /\ [][NextCrash]_vars

(* SpecWriteFail: the same, and the closing save_data may raise *)
NextWriteFail ==
    \/ SaveFails
    \/ NextCrash

SpecWriteFail == InitCrash /\ [][NextWriteFail]_vars

----------------------------------------------------------------------------
(* SpecJobs: the periodic triggers run over files of two groups *)

(* A group with an expense of the month and no meal data *)
UnsubmittedGroup == [NewGroup(1) EXCEPT !.expenses = <<Expense(2, "Alice", "u1", 1)>>]

(* A group with meal data of the month and no expense *)
NoExpenseGroup ==
    [NewGroup(1) EXCEPT
        !.meal_counts = [m \in {1} |-> Submission([u \in {"u1"} |-> 1], 1)],
        !.meal_data_submitted = TRUE]

JobGroups == {MidPeriodGroup, UnsubmittedGroup, NoExpenseGroup, LegacyGroup}

JobPointMaps == [{"g1", "g2"} -> FailurePoints]

InitJobs ==
    /\ disk \in {File([g \in {"g1", "g2"} |-> IF g = "g1" THEN a ELSE b]) :
                    a \in JobGroups, b \in JobGroups}
    /\ data = load_data(disk)
    /\ now = 1
    /\ op = OpRec("load_data", "-", "-", "-")
    /\ ret = RetNone
    /\ steps = MaxOps - 1
    /\ context = NoContext
    /\ loop = NoLoop

NextJobs ==
    \/ CheckMonthEnd(JobPointMaps)
    \/ CheckMealReminder(JobPointMaps)

SpecJobs == InitJobs /\ [][NextJobs]_vars

----------------------------------------------------------------------------
(* SpecGroups: engine calls for two groups, two calls in a row *)

AllGroups == {GroupOrder[i] : i \in 1..Len(GroupOrder)}

GroupKinds == {MidPeriodGroup, UnsubmittedGroup, LegacyGroup}

InitGroups ==
    /\ disk \in {NoFile}
                \cup {File([g \in {"g1"} |-> a]) : a \in GroupKinds}
                \cup {File([g \in AllGroups |-> IF g = "g1" THEN a ELSE b]) :
                            a \in GroupKinds, b \in GroupKinds}
    /\ data = load_data(disk)
    /\ now = 1
    /\ op = OpRec("load_data", "-", "-", "-")
    /\ ret = RetNone
    /\ steps = MaxOps - 2
    /\ context = NoContext
    /\ loop = NoLoop

NextGroups ==
    \/ Tick
    \/ \E g \in AllGroups :
        \/ Start(g)
        \/ AddMember(g, {"u1"}, LifeProfiles)
        \/ AddExpense(g, LifeAmounts, LifeAuthors)
        \/ SetMealCounts(g, LifeMealDatas)
        \/ UpdateSingleMealCount(g, {"u1"}, LifeCounts)
        \/ CalculateSettlement(g)
        \/ MemberWiseSummary(g)
        \/ ResetMonth(g)

SpecGroups == InitGroups /\ [][NextGroups]_vars

----------------------------------------------------------------------------
(* SpecTasks: the handler of an update and the month-end job on the event
   loop, for one group *)

InitTasks ==
    /\ disk \in InitFiles \cup {File([g \in {"g1"} |-> UnsubmittedGroup])}
    /\ data = load_data(disk)
    /\ now = 1
    /\ op = OpRec("load_data", "-", "-", "-")
    /\ ret = RetNone
    /\ steps = MaxOps - 3
    /\ context = NoContext
    /\ loop = NoLoop

NextTasks ==
    \/ \E flow \in HandlerFlows : CoStart("handler", flow)
    \/ CoStart("job", "check_month_end")
    \/ \E c \in Coroutines :
        \/ CoAwait(c)
        \/ CoSave(c)
        \/ \E g \in Groups : CoEngine(c, g)

SpecTasks == InitTasks /\ [][NextTasks]_vars

----------------------------------------------------------------------------
(* SpecMonthEndTasks: the month-end job from its first call to its reset_month,
   with the handler of one update in between *)

InitMonthEndTasks ==
    /\ disk \in InitFiles \cup {File([g \in {"g1"} |-> UnsubmittedGroup])}
    /\ data = load_data(disk)
    /\ now = 1
    /\ op = OpRec("load_data", "-", "-", "-")
    /\ ret = RetNone
    /\ steps = MaxOps - 4
    /\ context = NoContext
    /\ loop = NoLoop

SpecMonthEndTasks == InitMonthEndTasks /\ [][NextTasks]_vars

----------------------------------------------------------------------------
(* SpecMealEntry: the meal-entry conversation and the edit-meal conversation of
   one user, any reply of the bot after a stored change may fail *)

MealTexts == {"0", "1", " 2 ", "-1", "x"}

InitMealEntry ==
    /\ disk \in {NoFile, File([g \in {"g1"} |-> RegisteredGroup]),
                 File([g \in {"g1"} |-> SubmittedGroup])}
    /\ data = load_data(disk)
    /\ now = 1
    /\ op = OpRec("load_data", "-", "-", "-")
    /\ ret = RetNone
    /\ steps = MaxOps - 3
    /\ context = NoContext
    /\ loop = NoLoop

NextMealEntry ==
    \/ Tick
    \/ add_meals_start
    \/ \E choice \in {"cancel", "finish"} \cup Users : meal_member_select_handler(choice)
    \/ \E text \in MealTexts : meal_count_input_handler(text)
    \/ \E choice \in {"mealfinish_yes", "mealfinish_no"}, sent \in BOOLEAN :
            meal_finish_callback(choice, sent)
    \/ cancel
    \/ admin_edit_meal_start
    \/ \E choice \in {"cancel"} \cup Users : admin_edit_meal_select(choice)
    \/ \E text \in MealTexts, sent \in BOOLEAN : admin_edit_meal_count_handler(text, sent)

SpecMealEntry == InitMealEntry /\ [][NextMealEntry]_vars

----------------------------------------------------------------------------
(* SpecExpenseEntry: the three ways one user records an expense, the /expense
   conversation, the /addexpense conversation and the quick expense *)

ExpenseTexts == {"5", "0", "-3", "nan", "inf", "rice"}

InitExpenseEntry ==
    /\ disk \in {NoFile, File([g \in {"g1"} |-> RegisteredGroup])}
    /\ data = load_data(disk)
    /\ now = 1
    /\ op = OpRec("load_data", "-", "-", "-")
    /\ ret = RetNone
    /\ steps = MaxOps - 3
    /\ context = NoContext
    /\ loop = NoLoop

NextExpenseEntry ==
    \/ expense_start
    \/ \E text \in ExpenseTexts : amount_handler(text)
    \/ \E text \in ExpenseTexts, sent \in BOOLEAN : description_handler(text, sent)
    \/ admin_add_expense_start
    \/ \E choice \in {"cancel"} \cup Users : admin_expense_member_select(choice)
    \/ \E text \in ExpenseTexts : admin_expense_amount_handler(text)
    \/ \E text \in ExpenseTexts, sent \in BOOLEAN : admin_expense_desc_handler(text, sent)
    \/ \E text \in ExpenseTexts, sent \in BOOLEAN : handle_text_message(text, sent)
    \/ \E button \in {PyStr(PyFloat(text)) : text \in ExpenseTexts \ {"rice"}} :
            quick_expense_callback(button)
    \/ cancel

SpecExpenseEntry == InitExpenseEntry /\ [][NextExpenseEntry]_vars

----------------------------------------------------------------------------
(* SpecFresh: the life of a group that the engine creates, from no file *)

FreshAmounts == {1, 2}

FreshMealDatas == {[u \in {"u2"} |-> 3], [u \in Users |-> IF u = "u1" THEN 1 ELSE 2]}

FreshCounts == {2}

InitFresh ==
    /\ disk = NoFile
    /\ data = load_data(disk)
    /\ now = 1
    /\ op = OpRec("load_data", "-", "-", "-")
    /\ ret = RetNone
    /\ steps = 0
    /\ context = NoContext
    /\ loop = NoLoop

NextFresh ==
    \/ Tick
    \/ \E g \in Groups :
        \/ AddMember(g, {"u1"}, LifeProfiles)
        \/ AddExpense(g, FreshAmounts, LifeAuthors)
        \/ SetMealCounts(g, FreshMealDatas)
        \/ UpdateSingleMealCount(g, {"u1"}, FreshCounts)
        \/ ResetMonth(g)

SpecFresh == InitFresh /\ [][NextFresh]_vars

(* SpecFreshSummary: the same life, with the member-wise summary asked at any
   point *)

NextFreshSummary ==
    \/ NextFresh
    \/ \E g \in Groups : MemberWiseSummary(g)

SpecFreshSummary == InitFresh /\ [][NextFreshSummary]_vars

----------------------------------------------------------------------------
(* Properties *)

RECURSIVE SumOwes(_)
SumOwes(lines) ==
    IF lines = <<>> THEN Zero ELSE RatAdd(Head(lines).owes, SumOwes(Tail(lines)))

(* The last call was calculate_settlement and it returned a settlement *)
ComputedSettlement == op.name = "calculate_settlement" /\ ret.kind = "Settlement"

Returned == ret.settlement[1]

(* C1: conservation. In every settlement returned by calculate_settlement the
   owes of the lines with meals > 0 add up to cost_per_meal * total_meals, and
   total_expenses minus the owes of all lines is the remainder. *)
C1_Conservation ==
    ComputedSettlement =>
        LET s == Returned
            HasMeals(l) == l.meals > 0
        IN  /\ SumOwes(SelectSeq(s.settlements, HasMeals))
                    = RatMul(s.cost_per_meal, Rat(s.total_meals))
            /\ RatSub(s.total_expenses, SumOwes(s.settlements)) = s.remaining

(* C1 witness: a settlement with a fractional cost per meal, a carry-forward,
   a member with meals, and a spender who is absent from the meal data *)
C1_Witness ==
    /\ ComputedSettlement
    /\ Returned.cost_per_meal[2] # 1
    /\ Returned.carry_forward # Zero
    /\ \E i \in 1..Len(Returned.settlements) : Returned.settlements[i].meals > 1
    /\ \E i \in 1..Len(Returned.settlements) :
            /\ Returned.settlements[i].meals = 0
            /\ Returned.settlements[i].user_id \notin DOMAIN data["g1"].meal_counts[1].data

(* The settlement the engine computes for g in the current state *)
SettlementNow(g) == calculate_settlement(Store, g, now).ret

LastArchived(grp) == grp.settlements[Len(grp.settlements)].settlement

(* The expenses and the meal data the engine's queries return for g *)
ExpensesNow(g) == get_current_month_expenses(Store, g, now).ret

MealsNow(g) == get_current_month_meals(Store, g, now).ret

(* C2: carry-forward propagation. Once a settlement is archived, the group's
   carry_forward is the remainder of the last archived settlement until the next
   rotation, and the settlement computed meanwhile has carry_forward equal to
   that remainder and total_with_carry = total_expenses + that remainder. *)
C2_CarryForwardPropagation ==
    \A g \in DOMAIN data :
        Len(data[g].settlements) > 0 =>
            LET r == LastArchived(data[g]).remaining
                calc == SettlementNow(g)
            IN  /\ data[g].carry_forward = r
                /\ calc.kind = "Settlement" =>
                    /\ calc.settlement[1].carry_forward = r
                    /\ calc.settlement[1].total_with_carry
                            = RatAdd(calc.settlement[1].total_expenses, r)

(* C2 witness: a settlement computed in the month after a rotation that archived
   a non-zero remainder *)
C2_Witness ==
    /\ ComputedSettlement
    /\ Len(data["g1"].settlements) > 0
    /\ LastArchived(data["g1"]).remaining # Zero
    /\ Returned.month > LastArchived(data["g1"]).month
    /\ Returned.carry_forward = LastArchived(data["g1"]).remaining

(* C3: right after reset_month the expenses of the current period are empty and
   no expense carries the period key the group had when reset_month was called. *)
C3_RolloverPurgesPeriod ==
    [][\A g \in DOMAIN data :
        (data[g].missing = {} /\ Called("reset_month") /\ op'.g = g) =>
            /\ get_current_month_expenses([data |-> data', disk |-> disk'], g, now').ret = <<>>
            /\ \A i \in 1..Len(data'[g].expenses) :
                    data'[g].expenses[i].month # Found(g).current_month]_vars

(* The part of C3 the code keeps: the query for the current month is empty and no
   expense of the calendar month of the call is left. *)
C3_PurgesCalendarMonth ==
    [][\A g \in DOMAIN data :
        (Called("reset_month") /\ op'.g = g) =>
            /\ get_current_month_expenses([data |-> data', disk |-> disk'], g, now').ret = <<>>
            /\ \A i \in 1..Len(data'[g].expenses) : data'[g].expenses[i].month # now]_vars

(* C4: when reset_month is called and the settlement is defined, exactly that
   settlement, with the archive date, is appended to the archive, carry_forward
   becomes its remainder, and the settlement is returned. *)
C4_RotationArchives ==
    [][\A g \in Groups :
        (Called("reset_month") /\ op'.g = g /\ SettlementNow(g).kind = "Settlement") =>
            LET s == SettlementNow(g).settlement[1]
            IN  /\ data'[g].settlements
                        = Append(Found(g).settlements, [settlement |-> s, archived_date |-> now])
                /\ data'[g].carry_forward = s.remaining
                /\ ret' = RetSettlement(s)]_vars

(* C4 witness: reset_month has appended a settlement with a non-zero remainder
   to an archive that already held one *)
C4_Witness ==
    /\ op.name = "reset_month"
    /\ ret.kind = "Settlement"
    /\ Len(data["g1"].settlements) > 1
    /\ LastArchived(data["g1"]) = Returned
    /\ data["g1"].carry_forward # Zero

(* C5: when reset_month is called and the settlement is undefined, the archive
   and carry_forward are unchanged, the expenses of the group's current period
   are purged, meal_data_submitted is false and None is returned. *)
C5_UndefinedRotation ==
    [][\A g \in DOMAIN data :
        (/\ data[g].missing = {}
         /\ Called("reset_month")
         /\ op'.g = g
         /\ SettlementNow(g).kind # "Settlement") =>
            /\ data'[g].settlements = Found(g).settlements
            /\ data'[g].carry_forward = Found(g).carry_forward
            /\ \A i \in 1..Len(data'[g].expenses) :
                    data'[g].expenses[i].month # Found(g).current_month
            /\ data'[g].meal_data_submitted = FALSE
            /\ ret'.kind = "None"]_vars

(* The part of C5 the code keeps: nothing archived, carry_forward unchanged, the
   expenses of the calendar month purged, the flag cleared, None returned. *)
C5_UndefinedRotationCalendar ==
    [][\A g \in DOMAIN data :
        (Called("reset_month") /\ op'.g = g /\ SettlementNow(g).kind # "Settlement") =>
            /\ data'[g].settlements = Found(g).settlements
            /\ data'[g].carry_forward = Found(g).carry_forward
            /\ \A i \in 1..Len(data'[g].expenses) : data'[g].expenses[i].month # now
            /\ data'[g].meal_data_submitted = FALSE
            /\ ret'.kind = "None"]_vars

(* C6: reset_month clears meal_data_submitted and moves current_month to a key
   different from the one the group had. *)
C6_RotationAdvancesPeriod ==
    [][\A g \in DOMAIN data :
        (data[g].missing = {} /\ Called("reset_month") /\ op'.g = g) =>
            /\ data'[g].meal_data_submitted = FALSE
            /\ data'[g].current_month # Found(g).current_month]_vars

(* The part of C6 the code keeps: the flag is cleared and current_month is the
   calendar month of the call. *)
C6_RotationSetsCalendarMonth ==
    [][\A g \in DOMAIN data :
        (Called("reset_month") /\ op'.g = g) =>
            /\ data'[g].meal_data_submitted = FALSE
            /\ data'[g].current_month = now]_vars

(* C7: calculate_settlement is read-only. It returns None when the current
   month has no expenses or no meal submission, and in every case the state of
   an existing group (as found, missing fields defaulted) and of the file of a
   fully populated group is left as it was. *)
C7_ComputeSettlementReadOnly ==
    [][\A g \in DOMAIN data :
        (Called("calculate_settlement") /\ op'.g = g) =>
            /\ data' = [data EXCEPT ![g] = Found(g)]
            /\ (data[g].missing = {} => disk' = disk)
            /\ (ExpensesNow(g) = <<>> \/ now \notin DOMAIN Found(g).meal_counts)
                    => ret'.kind = "None"]_vars

(* C7 witness: expenses recorded, no meal submission, None returned *)
C7_Witness ==
    /\ op.name = "calculate_settlement"
    /\ ret.kind = "None"
    /\ ExpensesNow("g1") # <<>>
    /\ data["g1"].meal_counts = EmptyDict
    /\ data["g1"].carry_forward # Zero

(* C8: no division by zero. When a meal submission exists for the current month
   and its counts sum to zero, calculate_settlement returns None: it neither
   raises nor returns a settlement. *)
C8_NoDivisionByZero ==
    [][\A g \in DOMAIN data :
        (/\ Called("calculate_settlement")
         /\ op'.g = g
         /\ now \in DOMAIN Found(g).meal_counts
         /\ SumValues(Found(g).meal_counts[now].data) = 0)
            => ret'.kind = "None"]_vars

(* C8 witness: expenses recorded, a submission of two members whose counts are
   all zero, None returned *)
C8_Witness ==
    /\ op.name = "calculate_settlement"
    /\ ret.kind = "None"
    /\ ExpensesNow("g1") # <<>>
    /\ now \in DOMAIN data["g1"].meal_counts
    /\ DOMAIN MealsNow("g1") = Users
    /\ SumValues(MealsNow("g1")) = 0

(* C9: idempotent registration. add_member with an identifier already in the
   group returns False and leaves members as it was. *)
C9_IdempotentRegistration ==
    [][\A g \in DOMAIN data :
        (Called("add_member") /\ op'.g = g /\ op'.user_id \in DOMAIN Found(g).members) =>
            /\ ret'.kind = "False"
            /\ data'[g].members = Found(g).members]_vars

(* C9 witness: a second registration with another name, in a later month, was
   turned down and the stored entry kept *)
C9_Witness ==
    /\ op.name = "add_member"
    /\ ret.kind = "False"
    /\ data[op.g].members[op.user_id].name # op.arg
    /\ data[op.g].members[op.user_id].joined_date # now

(* C10: add_expense appends exactly one expense, stamped with the group's
   current_month at the time of the call, registered author or not. *)
C10_ExpenseStampedWithCurrentPeriod ==
    [][\A g \in DOMAIN data :
        (data[g].missing = {} /\ Called("add_expense") /\ op'.g = g) =>
            /\ Len(data'[g].expenses) = Len(Found(g).expenses) + 1
            /\ SubSeq(data'[g].expenses, 1, Len(Found(g).expenses)) = Found(g).expenses
            /\ data'[g].expenses[Len(data'[g].expenses)].month = Found(g).current_month
            /\ ret'.kind # "Raise"]_vars

(* The part of C10 the code keeps: exactly one expense is appended, stamped with
   the calendar month of the call, registered author or not. *)
C10_ExpenseStampedWithCalendarMonth ==
    [][\A g \in DOMAIN data :
        (Called("add_expense") /\ op'.g = g) =>
            /\ Len(data'[g].expenses) = Len(Found(g).expenses) + 1
            /\ SubSeq(data'[g].expenses, 1, Len(Found(g).expenses)) = Found(g).expenses
            /\ data'[g].expenses[Len(data'[g].expenses)].month = now
            /\ data'[g].expenses[Len(data'[g].expenses)].added_by_id = op'.user_id
            /\ ret'.kind # "Raise"]_vars

(* The expenses of g whose month is the group's stored current_month *)
StoredPeriodExpenses(g) ==
    LET InStoredPeriod(e) == e.month = data[g].current_month
    IN  SelectSeq(data[g].expenses, InStoredPeriod)

(* C11: in every state get_current_month_expenses returns exactly the expenses
   whose month is the group's stored current_month, whatever the calendar month
   of the query. *)
C11_QueryUsesStoredPeriod ==
    \A g \in DOMAIN data :
        data[g].missing = {} => ExpensesNow(g) = StoredPeriodExpenses(g)

(* C12: set_meal_counts replaces the month's submission wholesale. Right after
   the call get_current_month_meals returns exactly the mapping passed in and
   meal_data_submitted is true. *)
C12_SubmitReplacesWholesale ==
    [][\A g \in Groups :
        (Called("set_meal_counts") /\ op'.g = g) =>
            /\ get_current_month_meals([data |-> data', disk |-> disk'], g, now').ret
                    = op'.meal_data
            /\ data'[g].meal_data_submitted = TRUE
            /\ is_meal_data_submitted([data |-> data', disk |-> disk'], g, now').ret = TRUE]_vars

(* C12 witness: the first call on the file of SubmittedGroup, whose submission of
   the month held counts for u1 and u2, passed counts for u2 only, and the
   query returns counts for u2 only *)
C12_Witness ==
    /\ op.name = "set_meal_counts"
    /\ steps = 1
    /\ now = 1
    /\ data["g1"].members # EmptyDict
    /\ DOMAIN op.meal_data = {"u2"}
    /\ DOMAIN MealsNow("g1") = {"u2"}
    /\ data["g1"].meal_data_submitted

(* C13: update_single_meal_count. With no submission stored for the month it
   returns False and leaves the group as found; otherwise it returns True, the
   month's counts are the former ones with the given user's count set to the
   new count, and every other field of the group, the submitter and date of
   the submission and the submissions of other months are as they were. *)
C13_AdjustMealCount ==
    [][\A g \in DOMAIN data :
        (Called("update_single_meal_count") /\ op'.g = g) =>
            LET u == op'.user_id
                c == op'.meal_data[u]
            IN  IF now \notin DOMAIN Found(g).meal_counts
                THEN /\ ret'.kind = "False"
                     /\ data' = [data EXCEPT ![g] = Found(g)]
                ELSE /\ ret'.kind = "True"
                     /\ data' = [data EXCEPT ![g] =
                            [Found(g) EXCEPT !.meal_counts[now].data =
                                [x \in (DOMAIN @) \cup {u} |-> IF x = u THEN c ELSE @[x]]]]]_vars

(* C13 witness: an adjustment made in a month without a submission, after a
   month that had one, was turned down *)
C13_Witness ==
    /\ op.name = "update_single_meal_count"
    /\ ret.kind = "False"
    /\ now \notin DOMAIN data["g1"].meal_counts
    /\ data["g1"].meal_counts # EmptyDict

(* The other case of C13 is reached too: an adjustment set one user's count to
   0 and the other user's count of 1 stayed *)
C13_AdjustedReached ==
    /\ op.name = "update_single_meal_count"
    /\ ret.kind = "True"
    /\ DOMAIN MealsNow("g1") = Users
    /\ MealsNow("g1")[op.user_id] = 0
    /\ \E x \in Users : MealsNow("g1")[x] = 1

(* C14: in every state meal_data_submitted is true exactly when a submission
   is stored for the group's current_month. *)
C14_FlagIffSubmission ==
    \A g \in DOMAIN data :
        data[g].missing = {} =>
            (data[g].meal_data_submitted <=> data[g].current_month \in DOMAIN data[g].meal_counts)

(* What u spent: the sum of the amounts of the expenses es recorded by u *)
SpentBy(es, u) ==
    LET ByU(e) == e.added_by_id = u
    IN  SumAmounts(SelectSeq(es, ByU))

LinesOf(s, u) == {i \in 1..Len(s.settlements) : s.settlements[i].user_id = u}

(* C15: in every settlement returned, each identifier of the month's meal
   submission, registered or not, spender or not, has exactly one line; its
   spent is the sum of the month's expenses recorded by that identifier, its
   meals the submitted count, its owes meals * cost_per_meal and its balance
   spent - owes. *)
C15_MealLines ==
    ComputedSettlement =>
        \A u \in DOMAIN MealsNow("g1") :
            /\ Cardinality(LinesOf(Returned, u)) = 1
            /\ \A i \in LinesOf(Returned, u) :
                LET l == Returned.settlements[i]
                IN  /\ l.spent = SpentBy(ExpensesNow("g1"), u)
                    /\ l.meals = MealsNow("g1")[u]
                    /\ l.owes = RatMul(Rat(l.meals), Returned.cost_per_meal)
                    /\ l.balance = RatSub(l.spent, l.owes)

(* C15 witness: nobody registered, a sole spender of 500 with all 10 meals and
   no carry-forward gets cost per meal 50, owes 500, balance 0 *)
C15_Witness ==
    /\ ComputedSettlement
    /\ data["g1"].members = EmptyDict
    /\ Returned.carry_forward = Zero
    /\ Returned.cost_per_meal = Rat(50)
    /\ Len(Returned.settlements) = 1
    /\ Returned.settlements[1].user_id = "u1"
    /\ Returned.settlements[1].spent = Rat(500)
    /\ Returned.settlements[1].meals = 10
    /\ Returned.settlements[1].owes = Rat(500)
    /\ Returned.settlements[1].balance = Zero

(* The identifiers that recorded an expense in es *)
Spenders(es) == {es[i].added_by_id : i \in 1..Len(es)}

(* C16: in every settlement returned, each identifier that recorded expenses
   in the month and is absent from the month's meal submission has exactly one
   line, with meals 0, owes 0, and spent and balance equal to the sum of what
   it recorded. *)
C16_SpenderLines ==
    ComputedSettlement =>
        \A u \in Spenders(ExpensesNow("g1")) \ DOMAIN MealsNow("g1") :
            /\ Cardinality(LinesOf(Returned, u)) = 1
            /\ \A i \in LinesOf(Returned, u) :
                LET l == Returned.settlements[i]
                IN  /\ l.meals = 0
                    /\ l.owes = Zero
                    /\ l.spent = SpentBy(ExpensesNow("g1"), u)
                    /\ l.balance = SpentBy(ExpensesNow("g1"), u)

(* C16 witness: Carol spent 300 and is absent from the meal submission; her
   line has meals 0, owes 0, balance 300 *)
C16_Witness ==
    /\ ComputedSettlement
    /\ "u2" \notin DOMAIN MealsNow("g1")
    /\ \E i \in 1..Len(Returned.settlements) :
        /\ Returned.settlements[i].user_id = "u2"
        /\ Returned.settlements[i].name = "Carol"
        /\ Returned.settlements[i].meals = 0
        /\ Returned.settlements[i].owes = Zero
        /\ Returned.settlements[i].balance = Rat(300)

(* C17: in every settlement returned, cost_per_meal is total_with_carry over
   total_meals, remaining is total_expenses - cost_per_meal * total_meals, and
   remaining is the negation of the carry_forward that went in. *)
C17_Remainder ==
    ComputedSettlement =>
        LET s == Returned
        IN  /\ s.carry_forward = data["g1"].carry_forward
            /\ s.total_expenses = SumAmounts(ExpensesNow("g1"))
            /\ s.total_meals = SumValues(MealsNow("g1"))
            /\ RatMul(s.cost_per_meal, Rat(s.total_meals))
                    = RatAdd(s.total_expenses, s.carry_forward)
            /\ s.remaining = RatSub(s.total_expenses, RatMul(s.cost_per_meal, Rat(s.total_meals)))
            /\ s.remaining = RatSub(Zero, s.carry_forward)

(* C17 witness: carry_forward -50, expenses 1000, 100 meals: cost per meal
   19/2 and remaining 50 *)
C17_Witness ==
    /\ ComputedSettlement
    /\ Returned.carry_forward = Rat(-50)
    /\ Returned.total_expenses = Rat(1000)
    /\ Returned.total_meals = 100
    /\ Returned.cost_per_meal = <<19, 2>>
    /\ Returned.remaining = Rat(50)

RECURSIVE SumBalances(_)
SumBalances(lines) ==
    IF lines = <<>> THEN Zero ELSE RatAdd(Head(lines).balance, SumBalances(Tail(lines)))

(* C18: in every settlement returned, the balances of the lines add up to
   total_expenses - total_with_carry, which is zero when carry_forward is
   zero. *)
C18_BalancesSum ==
    ComputedSettlement =>
        /\ SumBalances(Returned.settlements)
                = RatSub(Returned.total_expenses, Returned.total_with_carry)
        /\ Returned.carry_forward = Zero => SumBalances(Returned.settlements) = Zero

(* C18 witness: no carry-forward, 600 spent by one of two members with 20 and
   10 meals: cost per meal 20, balances 200 and -200 *)
C18_Witness ==
    /\ ComputedSettlement
    /\ Returned.carry_forward = Zero
    /\ Returned.total_with_carry = Rat(600)
    /\ Returned.total_meals = 30
    /\ Returned.cost_per_meal = Rat(20)
    /\ Len(Returned.settlements) = 2
    /\ Returned.settlements[1].owes = Rat(400)
    /\ Returned.settlements[1].balance = Rat(200)
    /\ Returned.settlements[2].owes = Rat(200)
    /\ Returned.settlements[2].balance = Rat(-200)

(* The last call was get_member_wise_summary *)
AskedSummary == op.name = "get_member_wise_summary"

(* The summary has no cost per meal to work with: no expenses of the month, no
   meal submission of the month, or meals that add up to 0 *)
NoCostPerMeal(g) ==
    \/ ExpensesNow(g) = <<>>
    \/ DOMAIN MealsNow(g) = {}
    \/ SumValues(MealsNow(g)) = 0

(* C19 as stated: get_member_wise_summary never fails, and when there is no
   cost per meal every entry has owes 0 and balance 0. *)
C19_SummaryZeroBalance ==
    AskedSummary =>
        /\ ret.kind = "Summary"
        /\ NoCostPerMeal("g1") =>
            \A u \in DOMAIN ret.settlement[1] :
                /\ ret.settlement[1][u].owes = Zero
                /\ ret.settlement[1][u].balance = Zero

(* C19 amended: get_member_wise_summary never fails, and when there is no cost
   per meal every entry has owes 0 and balance equal to what the identifier
   spent in the month, which is 0 for an identifier that spent nothing. *)
C19_SummaryNeverFails ==
    AskedSummary =>
        /\ ret.kind = "Summary"
        /\ NoCostPerMeal("g1") =>
            \A u \in DOMAIN ret.settlement[1] :
                /\ ret.settlement[1][u].owes = Zero
                /\ ret.settlement[1][u].balance = SpentBy(ExpensesNow("g1"), u)
                /\ (u \notin Spenders(ExpensesNow("g1")) => ret.settlement[1][u].balance = Zero)

(* C19 witness: expenses of the month, a submission whose counts add up to 0,
   and a summary with an entry of a spender and an entry of a non-spender *)
C19_Witness ==
    /\ AskedSummary
    /\ ret.kind = "Summary"
    /\ ExpensesNow("g1") # <<>>
    /\ DOMAIN MealsNow("g1") # {}
    /\ SumValues(MealsNow("g1")) = 0
    /\ \E u \in DOMAIN ret.settlement[1] : ret.settlement[1][u].balance # Zero
    /\ \E u \in DOMAIN ret.settlement[1] : u \notin Spenders(ExpensesNow("g1"))

(* C20: the archive of settlements is append-only. In every step the archive
   of a group is a prefix of its archive after the step, and it grows only in
   a call of reset_month, by one entry. *)
C20_ArchiveAppendOnly ==
    [][\A g \in DOMAIN data :
        /\ g \in DOMAIN data'
        /\ Len(data'[g].settlements) >= Len(data[g].settlements)
        /\ SubSeq(data'[g].settlements, 1, Len(data[g].settlements)) = data[g].settlements
        /\ Len(data'[g].settlements) > Len(data[g].settlements) =>
            /\ Called("reset_month")
            /\ op'.g = g
            /\ Len(data'[g].settlements) = Len(data[g].settlements) + 1]_vars

(* C20 witness: two settlements archived in different months, the first still
   in place after the second rotation and an expense recorded since *)
C20_Witness ==
    /\ op.name = "add_expense"
    /\ Len(data["g1"].settlements) = 2
    /\ data["g1"].settlements[1].archived_date < data["g1"].settlements[2].archived_date
    /\ data["g1"].settlements[1].settlement.month = 1

(* C21: in every state every stored expense of a group carries the group's
   current_month: no expense of an older period is left. *)
C21_NoOlderPeriodExpenses ==
    \A g \in DOMAIN data :
        data[g].missing = {} =>
            \A i \in 1..Len(data[g].expenses) :
                data[g].expenses[i].month = data[g].current_month

(* The fields of the newer record format an engine call writes itself *)
WrittenBy(name) ==
    IF name = "set_meal_counts" THEN {"meal_counts", "meal_data_submitted"}
    ELSE IF name = "reset_month"
         THEN {"settlements", "carry_forward", "meal_data_submitted", "current_month"}
    ELSE {}

(* The value a group created or upgraded in month t has for field f *)
DefaultOf(f, t) ==
    IF f = "meal_counts" THEN EmptyDict
    ELSE IF f = "meal_data_submitted" THEN FALSE
    ELSE IF f = "carry_forward" THEN Zero
    ELSE IF f = "current_month" THEN t
    ELSE <<>>

FieldOf(grp, f) ==
    IF f = "meal_counts" THEN grp.meal_counts
    ELSE IF f = "meal_data_submitted" THEN grp.meal_data_submitted
    ELSE IF f = "carry_forward" THEN grp.carry_forward
    ELSE IF f = "current_month" THEN grp.current_month
    ELSE grp.settlements

(* C22: after any engine call for group g the group exists with every field
   present and the call has not failed for want of a field. A group that was
   unknown has the defaults in the fields the call does not write (no members,
   no expenses, no meal counts, the month of the call, no carry-forward, no
   archive, flag false); in a record that lacked some of the newer fields each
   of these has its default unless the call writes it, and the fields the
   record had are as the call leaves them for a full record. *)
C22_GroupAlwaysComplete ==
    [][\A g \in Groups :
        (steps' = steps + 1 /\ op'.g = g) =>
            /\ g \in DOMAIN data'
            /\ data'[g].missing = {}
            /\ ret'.kind # "Raise"
            /\ g \notin DOMAIN data =>
                /\ \A f \in UpgradedFields \ WrittenBy(op'.name) :
                        FieldOf(data'[g], f) = DefaultOf(f, now)
                /\ op'.name # "add_member" => data'[g].members = EmptyDict
                /\ op'.name # "add_expense" => data'[g].expenses = <<>>
            /\ g \in DOMAIN data =>
                /\ \A f \in data[g].missing \ WrittenBy(op'.name) :
                        FieldOf(data'[g], f) = DefaultOf(f, now)
                /\ \A f \in UpgradedFields \ (data[g].missing \cup WrittenBy(op'.name)) :
                        \/ FieldOf(data'[g], f) = FieldOf(data[g], f)
                        \/ f = "meal_counts" /\ op'.name = "update_single_meal_count"
            /\ (g \notin DOMAIN data \/ data[g].missing # {}) => disk' = File(data')]_vars

(* C22 witness: the one call made was add_expense, in month 2, on a record
   that lacked current_month, carry_forward, settlements and meal_counts:
   they hold the month of the call, 0, no archive and no meal counts *)
C22_Witness ==
    /\ op.name = "add_expense"
    /\ now = 2
    /\ data["g1"].missing = {}
    /\ data["g1"].current_month = 2
    /\ data["g1"].carry_forward = Zero
    /\ data["g1"].settlements = <<>>
    /\ data["g1"].meal_counts = EmptyDict
    /\ data["g1"].meal_data_submitted
    /\ Len(data["g1"].expenses) = 2
    /\ disk = File(data)

(* C23: after every step that leaves no engine call in flight the file holds
   exactly the state in memory. While a call has changed memory and not yet
   saved, the file still holds, whole, the state the call started from (with
   the group created or upgraded by the call's init_group), so that a restart
   at that moment loses the changes of that one call and nothing else; the
   closing save_data writes the whole state in memory. *)
C23_PersistedEqualsMemory ==
    [][/\ ~InFlight' => load_data(disk') = data'
       /\ (~InFlight /\ InFlight') =>
            /\ load_data(disk') = init_group(Store, op'.g, now).data
            /\ data' # load_data(disk')
       /\ (InFlight /\ ~InFlight' /\ op' = op) =>
            /\ data' = data
            /\ disk' = File(data)
       /\ (InFlight /\ op'.name = "load_data") =>
            /\ disk' = disk
            /\ data' = load_data(disk)]_vars

(* C23 witness: reset_month has archived a settlement and purged the expenses
   in memory and has not saved yet; the file holds the expense, the flag and
   the empty archive of before the call *)
C23_Witness ==
    /\ InFlight
    /\ op.name = "reset_month"
    /\ data["g1"].expenses = <<>>
    /\ Len(data["g1"].settlements) = 1
    /\ load_data(disk)["g1"].expenses # <<>>
    /\ load_data(disk)["g1"].settlements = <<>>
    /\ load_data(disk)["g1"].meal_data_submitted

(* C24: when the closing save_data of an engine call does not get the state in
   memory into the file, the call ends by raising to its caller: it returns
   neither True nor None nor a settlement. Engine calls go on being served
   afterwards. *)
C24_WriteFailurePropagates ==
    [][(InFlight /\ ~InFlight' /\ op' = op /\ disk' # File(data)) =>
            /\ ret'.kind = "Raise"
            /\ data' = data
            /\ steps' = steps]_vars

(* C24 witness: add_member has put the member in memory, its save failed, the
   call raised and the file does not have the member *)
C24_Witness ==
    /\ op.name = "add_member"
    /\ ret.kind = "Raise"
    /\ "u1" \in DOMAIN data["g1"].members
    /\ disk.file = "present"
    /\ "u1" \notin DOMAIN load_data(disk)["g1"].members

(* The texts of the messages a run sent to group g, in order *)
TextsTo(out, g) ==
    LET ToG(m) == m.chat_id = g
        ms == SelectSeq(out.sent, ToG)
    IN  [i \in 1..Len(ms) |-> ms[i].text]

TimesLogged(out, g) == Cardinality({i \in 1..Len(out.logged) : out.logged[i] = g})

(* C25: a run of check_month_end or check_meal_reminder logs an error for
   exactly the groups whose processing raised, once each, and every other
   group of the file is processed in full whatever happened to the groups
   before it: at month end an unsubmitted group is told so, a group with a
   settlement is sent it, rotated and told so, a group without settlement is
   left alone; three days before month end an unsubmitted group is reminded. *)
C25_TriggersIsolateFailures ==
    [][\A g \in DOMAIN data :
        (steps' = steps + 1 /\ op'.name \in {"check_month_end", "check_meal_reminder"}) =>
            LET out == ret'.settlement[1]
                raised ==
                    \/ op'.arg[g] = "notify" /\ ~Found(g).meal_data_submitted
                    \/ /\ op'.name = "check_month_end"
                       /\ op'.arg[g] # "none"
                       /\ Found(g).meal_data_submitted
                       /\ SettlementNow(g).kind = "Settlement"
            IN  /\ ret'.kind = "Job"
                /\ TimesLogged(out, g) = IF raised THEN 1 ELSE 0
                /\ ~raised =>
                    IF ~Found(g).meal_data_submitted
                    THEN /\ TextsTo(out, g) =
                                <<IF op'.name = "check_month_end"
                                  THEN "no_meal_data" ELSE "reminder">>
                         /\ data'[g] = Found(g)
                    ELSE IF op'.name = "check_month_end" /\ SettlementNow(g).kind = "Settlement"
                    THEN /\ TextsTo(out, g) = <<"settlement", "reset_done">>
                         /\ data'[g] = reset_month(Store, g, now).st.data[g]
                    ELSE /\ TextsTo(out, g) = <<>>
                         /\ data'[g] = Found(g)]_vars

(* C25 witness: at month end the message to the first group could not be sent;
   the error was logged and the second group was sent its settlement, rotated
   and told so *)
C25_Witness ==
    /\ op.name = "check_month_end"
    /\ ret.kind = "Job"
    /\ ret.settlement[1].logged = <<"g1">>
    /\ TextsTo(ret.settlement[1], "g1") = <<>>
    /\ TextsTo(ret.settlement[1], "g2") = <<"settlement", "reset_done">>
    /\ Len(data["g2"].settlements) = 1
    /\ data["g2"].expenses = <<>>

(* C26: groups share no state. An engine call for group g leaves the record
   of every other group as it was, in memory and in the file, and a group
   that was not there is not there afterwards. *)
C26_GroupsShareNoState ==
    [][\A g \in AllGroups :
        (steps' = steps + 1 /\ op'.g = g) =>
            \A h \in AllGroups \ {g} :
                /\ h \in DOMAIN data' <=> h \in DOMAIN data
                /\ h \in DOMAIN data => data'[h] = data[h]
                /\ h \in DOMAIN load_data(disk') <=> h \in DOMAIN load_data(disk)
                /\ h \in DOMAIN load_data(disk) => load_data(disk')[h] = load_data(disk)[h]]_vars

(* C26 witness: reset_month has rotated the second group and the first group
   still has its expense, its meal data, its flag and its empty archive, in
   memory and in the file *)
C26_Witness ==
    /\ op.name = "reset_month"
    /\ op.g = "g2"
    /\ DOMAIN data = AllGroups
    /\ data["g2"].expenses = <<>>
    /\ Len(data["g2"].settlements) = 1
    /\ data["g1"].expenses # <<>>
    /\ data["g1"].meal_data_submitted
    /\ data["g1"].settlements = <<>>
    /\ load_data(disk) = data

(* C27: at most one engine operation is in flight at any time, and it runs to
   its end without another coroutine taking a step. While a coroutine is in an
   engine method, between the change of memory and the closing save_data, the
   next step is that method's save_data: memory is as the method left it, no
   other coroutine has moved, and no second method is in flight. *)
C27_EngineCallsDoNotInterleave ==
    [][/\ Cardinality({c \in Coroutines : loop'.inside[c]}) <= 1
       /\ \A c \in Coroutines :
            loop.inside[c] =>
                /\ ~loop'.inside[c]
                /\ data' = data
                /\ disk' = save_data(Store).disk
                /\ \A d \in Coroutines \ {c} : loop'.pc[d] = loop.pc[d]]_vars

(* C27 witness: the handler of /reset is inside reset_month, memory rotated and
   the file not yet written, while the month-end job is suspended at the await
   between its calculate_settlement and its reset_month, which it calls next *)
C27_Witness ==
    /\ loop.inside["handler"]
    /\ loop.flow["handler"] = "reset_month"
    /\ op.name = "reset_month"
    /\ loop.flow["job"] = "check_month_end"
    /\ loop.running = "handler"
    /\ loop.pc["job"] > 1
    /\ Program("check_month_end")[loop.pc["job"] - 1] = "await"
    /\ Program("check_month_end")[loop.pc["job"]] = "reset_month"
    /\ load_data(disk) # data

(* What the queries show of a group's memory d at month t: the month's meal
   counts, the flag, the settlement and the member-wise summary *)
Visible(d, t) ==
    LET st == [data |-> d, disk |-> disk]
    IN  <<get_current_month_meals(st, Chat, t).ret,
          is_meal_data_submitted(st, Chat, t).ret,
          calculate_settlement(st, Chat, t).ret,
          get_member_wise_summary(st, Chat, t).ret>>

(* The last update was one of the meal-entry conversation other than the
   confirming "Yes, Save" *)
DraftStep ==
    \/ op.name \in {"add_meals_start", "meal_member_select_handler",
                    "meal_count_input_handler", "cancel"}
    \/ op.name = "meal_finish_callback" /\ op.arg = "mealfinish_no"

(* C28: no draft meal data is visible to the queries. A step of the meal-entry
   conversation other than the confirming "Yes, Save" (beginning, choosing a
   member, typing a count, going back to edit, cancelling) leaves what
   get_current_month_meals, is_meal_data_submitted, calculate_settlement and
   get_member_wise_summary return, and the group's record, as they were. *)
C28_NoDraftVisible ==
    [][DraftStep' => /\ Visible(data', now) = Visible(data, now)
                     /\ data' = data]_vars

(* The part of C28 the code keeps: as long as the collected dict is not the
   stored submission itself, which it is once "Yes, Save" has stored it and the
   bot's reply has failed, no step of the conversation other than "Yes, Save"
   changes what the queries return or the group's record *)
C28_NoDraftVisibleUnlessShared ==
    [][(DraftStep' /\ context.alias = {}) =>
            /\ Visible(data', now) = Visible(data, now)
            /\ data' = data]_vars

(* A count typed after "No, Edit" is in the stored submission and in no file *)
C28_DraftReached ==
    /\ op.name = "meal_count_input_handler"
    /\ context.conv["meal"] = "MEAL_MEMBER_SELECT"
    /\ context.alias # {}
    /\ load_data(disk) # data
    /\ get_current_month_meals(Store, Chat, now).ret
            = context.user_data["meal_data_collection"]

(* C30: every meal count stored in a submission is a non-negative integer, in
   memory and in the file, whether "Yes, Save" stored it through
   set_meal_counts or the edit-meal conversation through
   update_single_meal_count. *)
C30_StoredCountsNonNegative ==
    \A d \in {data, load_data(disk)} :
        \A g \in DOMAIN d :
            \A m \in DOMAIN d[g].meal_counts :
                \A u \in DOMAIN d[g].meal_counts[m].data :
                    d[g].meal_counts[m].data[u] \in Nat

(* C30 witness: a submission stored by "Yes, Save" in this run holds a count
   that the edit-meal conversation has then set to the 2 typed as " 2 " *)
C30_Witness ==
    /\ op.name = "admin_edit_meal_count_handler"
    /\ op.arg = " 2 "
    /\ ret.kind = "True"
    /\ Chat \in DOMAIN data
    /\ now \in DOMAIN data[Chat].meal_counts
    /\ DOMAIN data[Chat].meal_counts[now].data = {"u1"}
    /\ data[Chat].meal_counts[now].data["u1"] = 2
    /\ load_data(disk) = data

(* The amounts of the expenses stored for the chat's group, in memory and in
   the file *)
StoredAmounts ==
    UNION {{d[Chat].expenses[i].amount : i \in 1..Len(d[Chat].expenses)} :
                d \in {x \in {data, load_data(disk)} : Chat \in DOMAIN x}}

(* C29: every expense that a front-end flow has stored, through the /expense
   conversation, the /addexpense conversation or the quick expense, has
   amount > 0. *)
C29_StoredAmountsPositive == \A amount \in StoredAmounts : PyGreaterThanZero(amount)

(* The part of C29 the code keeps: no stored amount is zero or negative, and
   the text of none failed to parse *)
C29_NoStoredAmountNonPositive ==
    \A amount \in StoredAmounts : amount.ok /\ ~(amount.kind # "nan" /\ amount.v <= 0)

(* A quick expense of 5 has been recorded after an expense of another flow *)
C29_FlowsReached ==
    /\ Chat \in DOMAIN data
    /\ Len(data[Chat].expenses) = MaxExpenses
    /\ op.name = "handle_text_message"
    /\ ret.kind = "None"
    /\ data[Chat].expenses[MaxExpenses].amount = Float("finite", 5)
    /\ data[Chat].expenses[MaxExpenses].description = "rice"

(* C31: in a run of check_month_end a group is rotated only after its
   settlement has been sent to it: a group whose record the run has changed
   beyond the lazy upgrade was sent the settlement first, and a group whose
   first message could not be sent is left as the run found it. *)
C31_ReportBeforeRotation ==
    [][\A g \in DOMAIN data :
        (steps' = steps + 1 /\ op'.name = "check_month_end") =>
            LET texts == TextsTo(ret'.settlement[1], g)
            IN  /\ data'[g] # Found(g) => (texts # <<>> /\ texts[1] = "settlement")
                /\ op'.arg[g] = "notify" =>
                        /\ texts = <<>>
                        /\ data'[g] = Found(g)
                        /\ load_data(disk')[g] = load_data(init_group(Store, g, now).disk)[g]]_vars

(* C31 witness: the first group had meal data, an expense and a settlement to
   report; the report could not be sent, the error was logged and the group
   is not rotated: its expense, its flag and its empty archive are as before *)
C31_Witness ==
    /\ op.name = "check_month_end"
    /\ ret.kind = "Job"
    /\ op.arg["g1"] = "notify"
    /\ "g1" \in {ret.settlement[1].logged[i] : i \in 1..Len(ret.settlement[1].logged)}
    /\ data["g1"].meal_data_submitted
    /\ data["g1"].expenses # <<>>
    /\ data["g1"].settlements = <<>>
    /\ calculate_settlement(Store, "g1", now).ret.kind = "Settlement"

(* C32: a group that the engine created, with positive amounts, has
   carry_forward 0 in every state that add_member, add_expense,
   set_meal_counts, update_single_meal_count and reset_month reach, and every
   settlement in its archive has remaining 0 (in exact arithmetic). *)
C32_FreshGroupCarriesNothing ==
    \A g \in DOMAIN data :
        /\ data[g].carry_forward = Zero
        /\ \A i \in 1..Len(data[g].settlements) :
                data[g].settlements[i].settlement.remaining = Zero

(* C32 witness: the group was created by the engine and rotated with a cost
   per meal that is no whole number; the archived settlement has remaining 0
   and nothing is carried forward *)
C32_Witness ==
    /\ op.name = "reset_month"
    /\ ret.kind = "Settlement"
    /\ Len(data["g1"].settlements) = 1
    /\ LastArchived(data["g1"]).cost_per_meal[2] # 1
    /\ LastArchived(data["g1"]).total_expenses # Zero
    /\ LastArchived(data["g1"]).remaining = Zero
    /\ data["g1"].carry_forward = Zero

(* C33: after reset_month and before a new set_meal_counts,
   get_current_month_meals returns the empty dict, and calculate_settlement
   returns None even when an expense was added since: the meal counts of the
   month that was reset are not used again. *)
C33_NoMealsAfterRotation ==
    [][op.name = "reset_month" =>
            /\ DOMAIN MealsNow(op.g) = {}
            /\ (steps' = steps + 1 /\ op'.name = "add_expense" /\ op'.g = op.g) =>
                    calculate_settlement([data |-> data', disk |-> disk'], op.g, now').ret.kind = "None"]_vars

(* What the code keeps: once the calendar month has changed after a
   reset_month, the group has no meal counts and no settlement *)
C33_NoMealsAfterMonthChange ==
    [][(op.name = "reset_month" /\ now' # now) =>
            /\ DOMAIN get_current_month_meals(Store, op.g, now').ret = {}
            /\ calculate_settlement(Store, op.g, now').ret.kind = "None"]_vars

(* The case of C33_NoMealsAfterMonthChange is reached: a rotation that archived
   a settlement, in a month that is not the last *)
C33_RotatedReached ==
    /\ op.name = "reset_month"
    /\ ret.kind = "Settlement"
    /\ now < MaxMonth

(* The month-end job, resumed after the send of its report, calls reset_month *)
JobResets ==
    /\ loop.flow["job"] = "check_month_end"
    /\ loop.pc["job"] > 0
    /\ Program("check_month_end")[loop.pc["job"]] = "reset_month"
    /\ ~loop.inside["job"]
    /\ loop'.inside["job"]

(* The settlement the job computed and sent to the group *)
Reported == loop.pending["job"].settlement[1]

(* C34: in the month-end job the settlement that reset_month archives is the
   settlement that was sent to the group just before, and the expenses it
   removes are the expenses of that settlement, whatever handler ran while the
   report was being sent. *)
C34_ArchivedIsReported ==
    [][JobResets =>
            /\ LastArchived(data'[op'.g]) = Reported
            /\ SumAmounts(SelectSeq(data[op'.g].expenses, LAMBDA e : e.month = now))
                    = Reported.total_expenses]_vars

(* What the code keeps: with no engine call of a handler between the job's
   calculate_settlement and its reset_month, the archived settlement is the
   reported one *)
C34_ArchivedIsReportedWhenAlone ==
    [][(JobResets /\ op.name = "calculate_settlement") =>
            /\ LastArchived(data'[op'.g]) = Reported
            /\ SumAmounts(SelectSeq(data[op'.g].expenses, LAMBDA e : e.month = now))
                    = Reported.total_expenses]_vars

(* The job is suspended in the send of its report with a settlement computed,
   and no handler has called the engine since *)
C34_ReportBeingSent ==
    /\ loop.flow["job"] = "check_month_end"
    /\ loop.pc["job"] > 0
    /\ Program("check_month_end")[loop.pc["job"]] = "reset_month"
    /\ loop.running = "-"
    /\ op.name = "calculate_settlement"
    /\ loop.pending["job"].kind = "Settlement"

(* C35: a reset_month that directly follows a reset_month of the same group
   archives nothing, returns None, and leaves carry_forward, settlements and
   expenses as the first reset_month left them. *)
C35_SecondRotationIsEmpty ==
    [][(op.name = "reset_month" /\ op'.name = "reset_month" /\ op'.g = op.g
            /\ steps' = steps + 1) =>
            /\ ret'.kind = "None"
            /\ data'[op.g].settlements = data[op.g].settlements
            /\ data'[op.g].carry_forward = data[op.g].carry_forward
            /\ data'[op.g].expenses = data[op.g].expenses]_vars

(* C35 witness: two engine calls were made, the second a reset_month that
   returned None, and the archive holds one settlement. No file of Init holds
   an archived settlement, so the first call was the reset_month that archived
   it. *)
C35_Witness ==
    /\ steps = 2
    /\ op.name = "reset_month"
    /\ ret.kind = "None"
    /\ Len(data["g1"].settlements) = 1
    /\ data["g1"].carry_forward = LastArchived(data["g1"]).remaining
    /\ data["g1"].carry_forward # Zero

(* The identifiers on the lines of settlement s *)
LineIdentifiers(s) == {s.settlements[i].user_id : i \in 1..Len(s.settlements)}

(* C36: in every settlement returned, the identifiers on the lines are the keys
   of the month's meal submission together with the identifiers that recorded
   expenses of the month, and each of them is on exactly one line. *)
C36_LineIdentifiers ==
    ComputedSettlement =>
        /\ LineIdentifiers(Returned)
                = DOMAIN MealsNow("g1") \cup Spenders(ExpensesNow("g1"))
        /\ \A u \in LineIdentifiers(Returned) : Cardinality(LinesOf(Returned, u)) = 1

(* C36 witness: u1 is in the meal submission and recorded two expenses, u2
   recorded nothing and is in the meal submission too; two lines *)
C36_Witness ==
    /\ ComputedSettlement
    /\ DOMAIN MealsNow("g1") = {"u1", "u2"}
    /\ Len(ExpensesNow("g1")) = 2
    /\ Spenders(ExpensesNow("g1")) = {"u1"}
    /\ Len(Returned.settlements) = 2

(* A second case of C36: a spender absent from the meal submission next to a
   member with meals who recorded nothing *)
C36_DisjointReached ==
    /\ ComputedSettlement
    /\ DOMAIN MealsNow("g1") = {"u1"}
    /\ Spenders(ExpensesNow("g1")) = {"u2"}
    /\ LineIdentifiers(Returned) = {"u1", "u2"}

(* The line of identifier u in settlement s *)
LineOf(s, u) == s.settlements[CHOOSE i \in 1..Len(s.settlements) : s.settlements[i].user_id = u]

(* The entry of the summary sm says what the line l says *)
SameFigures(sm, l) ==
    /\ l.user_id \in DOMAIN sm
    /\ sm[l.user_id].total_spent = l.spent
    /\ sm[l.user_id].meals = l.meals
    /\ sm[l.user_id].owes = l.owes
    /\ sm[l.user_id].balance = l.balance

(* C37: for a group that the engine created, whenever calculate_settlement
   returns a settlement, get_member_wise_summary has an entry for every
   identifier on a line of it, with the same spent, meals, owes and balance. *)
C37_SummaryAgreesWithSettlement ==
    (AskedSummary /\ SettlementNow(op.g).kind = "Settlement") =>
        /\ ret.kind = "Summary"
        /\ \A i \in 1..Len(SettlementNow(op.g).settlement[1].settlements) :
                SameFigures(ret.settlement[1], SettlementNow(op.g).settlement[1].settlements[i])

(* C37 witness: a summary asked when the settlement is defined with a cost per
   meal that is no whole number, a line with meals and a registered member who
   is on no line *)
C37_Witness ==
    /\ AskedSummary
    /\ ret.kind = "Summary"
    /\ SettlementNow("g1").kind = "Settlement"
    /\ SettlementNow("g1").settlement[1].cost_per_meal[2] # 1
    /\ LineIdentifiers(SettlementNow("g1").settlement[1]) = {"u2"}
    /\ DOMAIN ret.settlement[1] = {"u1", "u2"}
    /\ ret.settlement[1]["u2"].owes # Zero

(* The fields of a group record that a rotation writes or reads *)
PeriodFields(grp) ==
    <<grp.expenses, grp.meal_counts, grp.carry_forward, grp.settlements,
      grp.current_month, grp.meal_data_submitted>>

(* C38: a run of check_month_end leaves alone every group whose
   meal_data_submitted is false or for which calculate_settlement returns no
   settlement: its expenses, meal_counts, carry_forward, settlements,
   current_month and meal_data_submitted are after the run what they were
   before it (for a legacy record, what the lazy upgrade makes of it). *)
C38_NoRotationWithoutSettlement ==
    [][\A g \in DOMAIN data :
        (steps' = steps + 1 /\ op'.name = "check_month_end"
            /\ (~Found(g).meal_data_submitted \/ SettlementNow(g).kind # "Settlement")) =>
                PeriodFields(data'[g]) = PeriodFields(Found(g))]_vars

(* C38 witness: after a run that rotated g2, g1 has no meal data submitted and
   still holds its expense of the month, its carry and an empty archive; it
   was sent the notice *)
C38_Witness ==
    /\ op.name = "check_month_end"
    /\ ret.kind = "Job"
    /\ DOMAIN data = {"g1", "g2"}
    /\ ~data["g1"].meal_data_submitted
    /\ ExpensesNow("g1") # <<>>
    /\ data["g1"].settlements = <<>>
    /\ TextsTo(ret.settlement[1], "g1") = <<"no_meal_data">>
    /\ Len(data["g2"].settlements) = 1

(* The other case of C38: g1 has meal data and no expense, so no settlement;
   after a run that rotated g2 its flag is still set and it was sent nothing *)
C38_UndefinedReached ==
    /\ op.name = "check_month_end"
    /\ ret.kind = "Job"
    /\ DOMAIN data = {"g1", "g2"}
    /\ data["g1"].meal_data_submitted
    /\ ExpensesNow("g1") = <<>>
    /\ DOMAIN MealsNow("g1") # {}
    /\ data["g1"].settlements = <<>>
    /\ TextsTo(ret.settlement[1], "g1") = <<>>
    /\ Len(data["g2"].settlements) = 1

(* admin_edit_meal_count_handler has called update_single_meal_count, sent its
   only reply on that path, "Meal Count Updated!", and ended the conversation *)
ReportsUpdated ==
    /\ op'.name = "admin_edit_meal_count_handler"
    /\ steps' = steps + 1
    /\ context.conv["admin_edit_meal"] = "EDIT_MEAL_COUNT"
    /\ context'.conv["admin_edit_meal"] = "END"

(* The count typed is the stored count of the member that was being edited *)
StoredTypedCount ==
    /\ now \in DOMAIN data'[Chat].meal_counts
    /\ context.user_data["edit_user_id"] \in DOMAIN data'[Chat].meal_counts[now].data
    /\ data'[Chat].meal_counts[now].data[context.user_data["edit_user_id"]]
            = PyInt(op'.arg).v

(* C39: the edit-meal conversation reports "Meal Count Updated!" only when
   update_single_meal_count returned True and the count typed is stored; when
   it returned False no success is reported. *)
C39_SuccessOnlyIfStored ==
    [][ReportsUpdated => (ret'.kind = "True" /\ StoredTypedCount)]_vars

(* What the code keeps: when a submission of the calendar month exists as the
   count is typed, the count reported as updated is the stored count *)
C39_StoredWhenSubmitted ==
    [][(ReportsUpdated /\ now \in DOMAIN data[Chat].meal_counts) =>
            (ret'.kind = "True" /\ StoredTypedCount)]_vars

(* The case of C39_StoredWhenSubmitted is reached: an edit that changed the
   stored count of u1 from 1 to 0 and was reported *)
C39_EditReached ==
    /\ op.name = "admin_edit_meal_count_handler"
    /\ ret.kind = "True"
    /\ op.arg = "0"
    /\ context.conv["admin_edit_meal"] = "END"
    /\ Chat \in DOMAIN data
    /\ now \in DOMAIN data[Chat].meal_counts
    /\ "u1" \in DOMAIN data[Chat].meal_counts[now].data
    /\ data[Chat].meal_counts[now].data["u1"] = 0

====
